---- MODULE Spec2Model ----
(***************************************************************************)
(* Trusted task bundle tooling of hack/tools/scripts:                      *)
(*   update_trusted_task_bundles.py   (ledger lookup, analyze_pipeline)    *)
(*   konflux_task_version_lookup.py   (registry lookup, process_task)      *)
(*                                                                         *)
(* Strings whose characters the code inspects (versions, tags) are         *)
(* sequences of one-character strings.  A digest reference is the record   *)
(* [prefix, hex]: the code only tests the prefix 'sha256:' and compares    *)
(* whole references.  A ledger key 'oci://<registry>/<task>:<version>' is  *)
(* the record [registry, task, version]; task names hold no ':' and the    *)
(* version alphabet below holds no ':' either, so the last ':' of the key  *)
(* string is the one in front of the version.                              *)
(***************************************************************************)
EXTENDS Integers, Sequences, FiniteSets, TLC

VARIABLES
    trusted_tasks,      \* TrustedTasksData.trusted_tasks: dict in insertion order
    call,               \* the ledger method invoked last, with its arguments
    ret,                \* what that method returned
    content,            \* the pipeline file: its bundle reference lines
    upgrade_versions,   \* --upgrade-versions
    updates,            \* AnalysisResult.updates
    available_upgrades, \* AnalysisResult.available_upgrades
    upc,                \* position of the updater
    ec_task,            \* the task dict as parse_ec_log produced it
    task,               \* the task dict process_task works on (updated in place)
    registry,           \* the registry: tags of the task's repository with their digests
    tags,               \* what list_tags returned
    results,            \* check_tag results gathered so far, per tag
    lpc,                \* position of process_task
    jira_semaphore,     \* JiraClient.semaphore: its free permits
    request_count,      \* JiraClient.request_count
    retry_count,        \* per call of _fetch_json: _retry_count of its innermost frame
    jira_ret,           \* per call of _fetch_json: what it returned
    jpc,                \* per call of _fetch_json: position of its innermost frame
    semaphore,          \* KonfluxTaskLookup.semaphore: its free permits
    base_auth,          \* KonfluxTaskLookup.base_auth: its kind
    token_cache,        \* KonfluxTaskLookup.token_cache, per repository
    lookups,            \* the registry calls in progress: method and repository
    hpc,                \* per registry call: its position
    hret,               \* per registry call: what it returned
    cache_hit,          \* per registry call: get_bearer_token found the entry cached
    sent,               \* per registry call: tag-list or manifest requests sent
    answered_ok,        \* per registry call: requests answered with 200
    rate_limited,       \* per registry call: a request was answered with 429
    token_requests,     \* per repository: token requests issued
    written,            \* per repository: the values written to its cache entry
    g_tasks,            \* process_all_tasks: the tasks it was given
    g_done,             \* process_all_tasks: the tasks whose process_task completed, in that order
    g_results,          \* process_all_tasks: results
    gpc,                \* position of process_all_tasks
    m_args,             \* main: args (dry_run, diff, upgrade_versions)
    m_catalog,          \* main: the trusted_tasks the data source holds
    m_files,            \* main: the pipeline files as they were before the run, as lines
    m_disk,             \* main: the text of each pipeline file on disk
    m_fetch,            \* main: how fetch_trusted_tasks_data ended
    m_results,          \* main: all_results, per pipeline file
    m_exit,             \* main: the exit status, once exited
    mpc,                \* position of main
    git_log,            \* the commits git answers with: hash, parents, message body
    commit_i,           \* analyze_commits: commits of commit_hashes already counted
    counters,           \* analyze_commits: its local counters
    stats,              \* the CommitStats analyze_commits returned
    cpc,                \* position of analyze_commits
    auth_env,           \* QUAY_REGISTRY_TOKEN in the environment (empty: unset)
    auth_files,         \* the three auth files as found on disk
    auth_ret,           \* what get_registry_auth returned
    apc,                \* position of get_registry_auth
    ec_data,            \* the EC report: components with their violations and warnings
    component_i,        \* parse_ec_log: components already processed
    tasks_by_bundle,    \* parse_ec_log: tasks by current bundle, in insertion order
    untrusted_tasks,    \* parse_ec_log: task_name -> required_digest, in insertion order
    unsupported_recommendations,\* parse_ec_log: task_name -> recommended version
    ec_tasks,           \* the list parse_ec_log returned
    epc,                \* position of parse_ec_log
    has_aiohttp,        \* HAS_AIOHTTP: aiohttp could be imported
    cursor,             \* fetch_release_prs_graphql: pages fetched, the cursor into the search
    prs,                \* fetch_release_prs_graphql: PRs collected (the page each came from)
    gh_retry_count,     \* fetch_release_prs_graphql: retry_count
    consecutive_failed, \* failed responses in a row, up to the last response
    prs_ret,            \* what fetch_release_prs_graphql returned
    qpc,                \* position of fetch_release_prs_graphql
    manifests,          \* the YAML documents read from stdin
    template_objects,   \* template["objects"], patched in place
    obj_i,              \* generate-saas-template: objects already visited by the patch loop
    stdout,             \* the objects of the template written to stdout
    spc                 \* position of generate-saas-template

ledgerVars == <<trusted_tasks, call, ret>>
updaterVars == <<content, upgrade_versions, updates, available_upgrades, upc>>
lookupVars == <<ec_task, task, registry, tags, results, lpc>>
jiraVars == <<jira_semaphore, request_count, retry_count, jira_ret, jpc>>

httpVars == <<semaphore, base_auth, token_cache, lookups, hpc, hret, cache_hit,
              sent, answered_ok, rate_limited, token_requests, written>>

gatherVars == <<g_tasks, g_done, g_results, gpc>>

mainVars == <<m_args, m_catalog, m_files, m_disk, m_fetch, m_results, m_exit, mpc>>

commitsVars == <<git_log, commit_i, counters, stats, cpc>>

authVars == <<auth_env, auth_files, auth_ret, apc>>

ecLogVars == <<ec_data, component_i, tasks_by_bundle, untrusted_tasks, unsupported_recommendations, ec_tasks, epc>>

graphqlVars == <<has_aiohttp, cursor, prs, gh_retry_count, consecutive_failed, prs_ret, qpc>>

saasVars == <<manifests, template_objects, obj_i, stdout, spc>>

\* The state of the tools beside the ledger, the updater and the lookup.
otherVars == <<jiraVars, httpVars, gatherVars, mainVars, commitsVars, authVars, ecLogVars, graphqlVars, saasVars>>

\* What an action of one tool leaves alone: the state of all the others.
notJiraVars == <<ledgerVars, updaterVars, lookupVars, httpVars, gatherVars, mainVars, commitsVars, authVars, ecLogVars, graphqlVars, saasVars>>
notHttpVars == <<ledgerVars, updaterVars, lookupVars, jiraVars, gatherVars, mainVars, commitsVars, authVars, ecLogVars, graphqlVars, saasVars>>
notGatherVars == <<ledgerVars, updaterVars, lookupVars, jiraVars, httpVars, mainVars, commitsVars, authVars, ecLogVars, graphqlVars, saasVars>>
notMainVars == <<ledgerVars, updaterVars, lookupVars, jiraVars, httpVars, gatherVars, commitsVars, authVars, ecLogVars, graphqlVars, saasVars>>
notCommitsVars == <<ledgerVars, updaterVars, lookupVars, jiraVars, httpVars, gatherVars, mainVars, authVars, ecLogVars, graphqlVars, saasVars>>
notAuthVars == <<ledgerVars, updaterVars, lookupVars, jiraVars, httpVars, gatherVars, mainVars, commitsVars, ecLogVars, graphqlVars, saasVars>>
notEcLogVars == <<ledgerVars, updaterVars, lookupVars, jiraVars, httpVars, gatherVars, mainVars, commitsVars, authVars, graphqlVars, saasVars>>
notGraphqlVars == <<ledgerVars, updaterVars, lookupVars, jiraVars, httpVars, gatherVars, mainVars, commitsVars, authVars, ecLogVars, saasVars>>
notSaasVars == <<ledgerVars, updaterVars, lookupVars, jiraVars, httpVars, gatherVars, mainVars, commitsVars, authVars, ecLogVars, graphqlVars>>

vars == <<ledgerVars, updaterVars, lookupVars, otherVars>>

\* JiraClient is not constructed.
JiraOff ==
    /\ jira_semaphore = 0
    /\ request_count = 0
    /\ retry_count = <<>>
    /\ jira_ret = <<>>
    /\ jpc = <<>>

\* No registry call is in progress at the HTTP level.
HttpOff ==
    /\ semaphore = 0
    /\ base_auth = ""
    /\ token_cache = <<>>
    /\ lookups = <<>>
    /\ hpc = <<>>
    /\ hret = <<>>
    /\ cache_hit = <<>>
    /\ sent = <<>>
    /\ answered_ok = <<>>
    /\ rate_limited = <<>>
    /\ token_requests = <<>>
    /\ written = <<>>

\* process_all_tasks is not running.
GatherOff ==
    /\ g_tasks = <<>>
    /\ g_done = <<>>
    /\ g_results = <<>>
    /\ gpc = "off"

\* main of update_trusted_task_bundles.py is not running.
MainOff ==
    /\ m_args = <<>>
    /\ m_catalog = <<>>
    /\ m_files = <<>>
    /\ m_disk = <<>>
    /\ m_fetch = ""
    /\ m_results = <<>>
    /\ m_exit = <<>>
    /\ mpc = "off"

\* analyze_commits is not running.
CommitsOff ==
    /\ git_log = <<>>
    /\ commit_i = 0
    /\ counters = <<>>
    /\ stats = <<>>
    /\ cpc = "off"

\* get_registry_auth is not running.
AuthOff ==
    /\ auth_env = ""
    /\ auth_files = <<>>
    /\ auth_ret = <<>>
    /\ apc = "off"

\* parse_ec_log is not running.
EcLogOff ==
    /\ ec_data = <<>>
    /\ component_i = 0
    /\ tasks_by_bundle = <<>>
    /\ untrusted_tasks = <<>>
    /\ unsupported_recommendations = <<>>
    /\ ec_tasks = <<>>
    /\ epc = "off"

\* fetch_release_prs_graphql is not running.
GraphqlOff ==
    /\ has_aiohttp = FALSE
    /\ cursor = 0
    /\ prs = <<>>
    /\ gh_retry_count = 0
    /\ consecutive_failed = 0
    /\ prs_ret = <<>>
    /\ qpc = "off"

\* generate-saas-template is not running.
SaasOff ==
    /\ manifests = <<>>
    /\ template_objects = <<>>
    /\ obj_i = 0
    /\ stdout = <<>>
    /\ spc = "off"

OtherOff == JiraOff /\ HttpOff /\ GatherOff /\ MainOff /\ CommitsOff /\ AuthOff /\ EcLogOff /\ GraphqlOff /\ SaasOff

(***************************************************************************)
(* Bounds of the model.                                                    *)
(***************************************************************************)
MaxKeys == 2        \* keys in the ledger
MaxRecords == 2     \* records under one ledger key
MaxRefs == 1        \* bundle references in the pipeline file
MaxTags == 2        \* tags in the registry repository

(***************************************************************************)
(* Strings.                                                                *)
(***************************************************************************)
IsDigit(c) == c \in {"0", "1", "2", "3", "4", "5", "6", "7", "8", "9"}

DigitVal(c) ==
    CASE c = "0" -> 0 [] c = "1" -> 1 [] c = "2" -> 2 [] c = "3" -> 3
      [] c = "4" -> 4 [] c = "5" -> 5 [] c = "6" -> 6 [] c = "7" -> 7
      [] c = "8" -> 8 [] c = "9" -> 9

\* str.split(sep): the pieces between the separators, empty pieces included.
RECURSIVE SplitAcc(_, _, _, _)
SplitAcc(s, sep, cur, acc) ==
    IF s = <<>> THEN Append(acc, cur)
    ELSE IF Head(s) = sep THEN SplitAcc(Tail(s), sep, <<>>, Append(acc, cur))
    ELSE SplitAcc(Tail(s), sep, Append(cur, Head(s)), acc)

Split(s, sep) == SplitAcc(s, sep, <<>>, <<>>)

\* int(p) raises ValueError unless p is a non-empty run of digits (signs,
\* blanks and underscores are outside the alphabet of the model).
IntOk(p) == p # <<>> /\ \A i \in 1..Len(p) : IsDigit(p[i])

RECURSIVE IntVal(_)
IntVal(p) ==
    IF p = <<>> THEN 0
    ELSE 10 * IntVal(SubSeq(p, 1, Len(p) - 1)) + DigitVal(p[Len(p)])

\* [int(p) for p in version.split('.')]: ok is FALSE where Python raises ValueError.
VersionParts(version) ==
    LET pieces == Split(version, ".")
    IN  IF \A i \in 1..Len(pieces) : IntOk(pieces[i])
        THEN [ok |-> TRUE, parts |-> [i \in 1..Len(pieces) |-> IntVal(pieces[i])]]
        ELSE [ok |-> FALSE, parts |-> <<>>]

\* Python's a > b on lists of integers.
RECURSIVE ListGreater(_, _)
ListGreater(a, b) ==
    IF a = <<>> THEN FALSE
    ELSE IF b = <<>> THEN TRUE
    ELSE IF Head(a) # Head(b) THEN Head(a) > Head(b)
    ELSE ListGreater(Tail(a), Tail(b))

(***************************************************************************)
(* The values the model draws its inputs from.                             *)
(***************************************************************************)
V_0_1 == <<"0", ".", "1">>
V_0_2 == <<"0", ".", "2">>
V_0_9 == <<"0", ".", "9">>
V_0_10 == <<"0", ".", "1", "0">>
V_0_010 == <<"0", ".", "0", "1", "0">>
V_0_20 == <<"0", ".", "2", "0">>
V_1 == <<"1">>
V_1_0 == <<"1", ".", "0">>
V_0_x == <<"0", ".", "x">>
V_0_ == <<"0", ".">>
V_empty == <<>>

Sha(h) == [prefix |-> "sha256:", hex |-> h]
BadRef == [prefix |-> "md5:", hex |-> "ddd"]
NoRef == [prefix |-> "", hex |-> ""]

REGISTRY == "quay.io/konflux-ci/tekton-catalog"
TASK == "task-buildah"
OTHER_TASK == "task-buildah-oci-ta"

Key(t, v) == [registry |-> REGISTRY, task |-> t, version |-> v]

Record(ref, expires) == [ref |-> ref, expires_on |-> expires]

RecordPool == {Record(r, e) : r \in {Sha("aaa"), Sha("bbb"), BadRef}, e \in BOOLEAN}

RecordLists(n) == UNION {[1..k -> RecordPool] : k \in 0..n}

\* Ledgers of up to n keys drawn from keys, each with a record list from lists.
Ledgers(keys, lists, n) ==
    UNION {{l \in [1..k -> [key : keys, records : lists]] :
                \A i, j \in 1..k : i # j => l[i].key # l[j].key} : k \in 0..n}

(***************************************************************************)
(* TrustedTasksData                                                        *)
(***************************************************************************)
None == [found |-> FALSE, version |-> <<>>, digest |-> NoRef]

Some(version, digest) == [found |-> TRUE, version |-> version, digest |-> digest]

\* self.trusted_tasks.get(task_key, [])
RecordsOf(ledger, task_key) ==
    IF \E i \in 1..Len(ledger) : ledger[i].key = task_key
    THEN ledger[CHOOSE i \in 1..Len(ledger) : ledger[i].key = task_key].records
    ELSE <<>>

\* ref.startswith('sha256:')
StartsWithSha256(ref) == ref.prefix = "sha256:"

\* re.search(r':([0-9.]+)$', task_key): group(1), or '' without a match.
VersionOfKey(task_key) ==
    LET v == task_key.version
    IN  IF v # <<>> /\ \A i \in 1..Len(v) : IsDigit(v[i]) \/ v[i] = "."
        THEN v ELSE <<>>

\* Mutant: the expiry marker is not looked at.
get_latest_trusted_any(ledger, task_key) ==
    LET records == RecordsOf(ledger, task_key)
    IN  IF records # <<>> /\ StartsWithSha256(records[1].ref)
        THEN Some(VersionOfKey(task_key), records[1].ref)
        ELSE None

get_latest_trusted(ledger, task_key) ==
    LET records == RecordsOf(ledger, task_key)
        current == {i \in 1..Len(records) :
                        ~records[i].expires_on /\ StartsWithSha256(records[i].ref)}
    IN  IF records = <<>> THEN None
        ELSE IF current # {}
        THEN Some(VersionOfKey(task_key),
                  records[CHOOSE i \in current : \A j \in current : i <= j].ref)
        ELSE IF StartsWithSha256(records[1].ref)
        THEN Some(VersionOfKey(task_key), records[1].ref)
        ELSE None

\* versions.sort(reverse=True, key=lambda x: x[0]): stable, greatest first.
RECURSIVE InsertDesc(_, _)
InsertDesc(x, s) ==
    IF s = <<>> THEN <<x>>
    ELSE IF ListGreater(x.parts, Head(s).parts) THEN <<x>> \o s
    ELSE <<Head(s)>> \o InsertDesc(x, Tail(s))

\* Mutant: reverse=True is missing, the smallest version comes first.
RECURSIVE SortAsc(_)
SortAsc(s) ==
    IF s = <<>> THEN <<>>
    ELSE LET sorted == SortAsc(SubSeq(s, 1, Len(s) - 1))
             x == s[Len(s)]
             after == {i \in 1..Len(sorted) : ListGreater(sorted[i].parts, x.parts)}
             at == IF after = {} THEN Len(sorted) + 1
                   ELSE CHOOSE i \in after : \A j \in after : i <= j
         IN  SubSeq(sorted, 1, at - 1) \o <<x>> \o SubSeq(sorted, at, Len(sorted))

RECURSIVE SortDesc(_)
SortDesc(s) ==
    IF s = <<>> THEN <<>>
    ELSE InsertDesc(s[Len(s)], SortDesc(SubSeq(s, 1, Len(s) - 1)))

\* The (version_parts, version_str, key) triples of the keys under the prefix
\* 'oci://<registry>/<task_name>:' whose version parses, in dict order.
RECURSIVE VersionsOf(_, _, _)
VersionsOf(ledger, reg, task_name) ==
    IF ledger = <<>> THEN <<>>
    ELSE LET key == Head(ledger).key
             vp == VersionParts(key.version)
             rest == VersionsOf(Tail(ledger), reg, task_name)
         IN  IF key.registry = reg /\ key.task = task_name /\ vp.ok
             THEN <<[parts |-> vp.parts, version_str |-> key.version, key |-> key]>> \o rest
             ELSE rest

find_latest_version(ledger, reg, task_name) ==
    LET versions == VersionsOf(ledger, reg, task_name)
    IN  IF versions = <<>> THEN None
        ELSE LET latest == SortDesc(versions)[1]
                 result == get_latest_trusted(ledger, latest.key)
             IN  IF result.found THEN Some(latest.version_str, result.digest)
                 ELSE None

\* Mutant: the versions are compared as strings, character by character.
RECURSIVE StringGreater(_, _)
StringGreater(a, b) ==
    IF a = <<>> THEN FALSE
    ELSE IF b = <<>> THEN TRUE
    ELSE IF Head(a) # Head(b)
    THEN IF IsDigit(Head(a)) /\ IsDigit(Head(b)) THEN DigitVal(Head(a)) > DigitVal(Head(b))
         ELSE IsDigit(Head(a))
    ELSE StringGreater(Tail(a), Tail(b))

is_newer_version_str(current, candidate) == StringGreater(candidate, current)

\* Mutant: a piece that is not an integer counts as 0 instead of ending the
\* comparison.
is_newer_version_lenient(current, candidate) ==
    LET Parts(v) == [i \in 1..Len(Split(v, ".")) |->
                        IF IntOk(Split(v, ".")[i]) THEN IntVal(Split(v, ".")[i]) ELSE 0]
    IN  ListGreater(Parts(candidate), Parts(current))

is_newer_version(current, candidate) ==
    LET current_parts == VersionParts(current)
        candidate_parts == VersionParts(candidate)
    IN  IF current_parts.ok /\ candidate_parts.ok
        THEN ListGreater(candidate_parts.parts, current_parts.parts)
        ELSE FALSE

(***************************************************************************)
(* The ledger methods called on their own: the ledger is an input, each    *)
(* action is one call.                                                     *)
(***************************************************************************)
VersionPool == {V_0_1, V_0_9, V_0_10, V_0_010, V_1, V_1_0, V_0_x, V_0_, V_empty}

LedgerKeyPool ==
    {Key(TASK, v) : v \in {V_0_9, V_0_10, V_0_010, V_0_x}} \cup {Key(OTHER_TASK, V_0_20)}

LedgerListPool ==
    {<<>>, <<Record(Sha("bbb"), TRUE), Record(Sha("aaa"), FALSE)>>}

LedgerInputs ==
    Ledgers(LedgerKeyPool, LedgerListPool, MaxKeys)
        \cup Ledgers({Key(TASK, V_0_9)}, RecordLists(MaxRecords), 1)

NoCall == [fn |-> "none", args |-> <<>>]

UpdaterOff ==
    /\ content = <<>>
    /\ upgrade_versions = FALSE
    /\ updates = <<>>
    /\ available_upgrades = <<>>
    /\ upc = "off"

NoTask ==
    [task_name |-> "", current_version |-> <<>>, current_digest |-> NoRef,
     latest_digest |-> NoRef, recommended_version |-> <<>>, is_untrusted |-> FALSE,
     latest_version |-> <<>>, version_source |-> "", warning |-> "", error |-> "",
     is_version_bump |-> FALSE]

LookupOff ==
    /\ ec_task = NoTask
    /\ task = NoTask
    /\ registry = <<>>
    /\ tags = <<>>
    /\ results = <<>>
    /\ lpc = "off"

InitLedger ==
    /\ OtherOff
    /\ trusted_tasks \in LedgerInputs
    /\ call = NoCall
    /\ ret = None
    /\ UpdaterOff
    /\ LookupOff

GetLatestTrusted(task_key) ==
    /\ call' = [fn |-> "get_latest_trusted", args |-> <<task_key>>]
    /\ ret' = get_latest_trusted(trusted_tasks, task_key)
    /\ UNCHANGED <<trusted_tasks, updaterVars, lookupVars, otherVars>>

FindLatestVersion(reg, task_name) ==
    /\ call' = [fn |-> "find_latest_version", args |-> <<reg, task_name>>]
    /\ ret' = find_latest_version(trusted_tasks, reg, task_name)
    /\ UNCHANGED <<trusted_tasks, updaterVars, lookupVars, otherVars>>

IsNewerVersion(current, candidate) ==
    /\ call' = [fn |-> "is_newer_version", args |-> <<current, candidate>>]
    /\ ret' = is_newer_version(current, candidate)
    /\ UNCHANGED <<trusted_tasks, updaterVars, lookupVars, otherVars>>

NextLedger ==
    \/ \E task_key \in LedgerKeyPool : GetLatestTrusted(task_key)
    \/ \E task_name \in {TASK, OTHER_TASK} : FindLatestVersion(REGISTRY, task_name)
    \/ \E current, candidate \in VersionPool : IsNewerVersion(current, candidate)

SpecLedger == InitLedger /\ [][NextLedger]_vars

(***************************************************************************)
(* Properties of the ledger methods (checked under SpecLedger).            *)
(***************************************************************************)
\* x > y on integer tuples, stated by the position that decides it.
TupleGT(x, y) ==
    \/ \E i \in 1..Len(x) :
        /\ i <= Len(y)
        /\ x[i] > y[i]
        /\ \A j \in 1..(i - 1) : x[j] = y[j]
    \/ /\ Len(x) > Len(y)
       /\ \A j \in 1..Len(y) : x[j] = y[j]

CalledRecords == RecordsOf(trusted_tasks, call.args[1])

C4_Candidates ==
    {i \in 1..Len(trusted_tasks) :
        /\ trusted_tasks[i].key.registry = call.args[1]
        /\ trusted_tasks[i].key.task = call.args[2]
        /\ VersionParts(trusted_tasks[i].key.version).ok}

\* C4: find_latest_version returns a version of the task that no other
\* version of the task exceeds numerically, with get_latest_trusted's digest
\* for that version's key (nothing if that key has no trusted digest, or if
\* the task has no version).
C4_FindLatestVersion ==
    call.fn = "find_latest_version" =>
        IF C4_Candidates = {} THEN ~ret.found
        ELSE \E i \in C4_Candidates :
                LET key == trusted_tasks[i].key
                    trusted == get_latest_trusted(trusted_tasks, key)
                IN  /\ \A j \in C4_Candidates :
                        ~TupleGT(VersionParts(trusted_tasks[j].key.version).parts,
                                 VersionParts(key.version).parts)
                    /\ ret.found = trusted.found
                    /\ ret.found => /\ ret.version = key.version
                                    /\ ret.digest = trusted.digest

\* C4 witness: 0.9 and 0.10 are both in the ledger and 0.10 was selected.
C4_Witness ==
    /\ call.fn = "find_latest_version"
    /\ \E i, j \in C4_Candidates :
        /\ trusted_tasks[i].key.version = V_0_9
        /\ trusted_tasks[j].key.version = V_0_10
    /\ ret.found
    /\ ret.version = V_0_10

\* C5: for versions that are dot-separated integers, is_newer_version(a, b)
\* is exactly tuple(b) > tuple(a).
C5_IsNewerVersion ==
    (/\ call.fn = "is_newer_version"
     /\ VersionParts(call.args[1]).ok
     /\ VersionParts(call.args[2]).ok) =>
        ret = TupleGT(VersionParts(call.args[2]).parts, VersionParts(call.args[1]).parts)

\* C5 witness: 0.10 was found newer than 0.9.
C5_Witness ==
    /\ call.fn = "is_newer_version"
    /\ call.args = <<V_0_9, V_0_10>>
    /\ ret = TRUE

(***************************************************************************)
(* update_trusted_task_bundles.py: analyze_pipeline                        *)
(***************************************************************************)
\* A line of the pipeline file: a 'value: <bundle reference>' line matching
\* BUNDLE_PATTERN, or any other line.
BundleLine(t, v, d) ==
    [bundle |-> TRUE, registry |-> REGISTRY, task |-> t, version |-> v, digest |-> d]

OtherLine ==
    [bundle |-> FALSE, registry |-> "", task |-> "", version |-> <<>>, digest |-> NoRef]

\* (line_number, bundle_value) of the lines that hold a bundle reference.
RECURSIVE BundleRefsFrom(_, _)
BundleRefsFrom(lines, n) ==
    IF n > Len(lines) THEN <<>>
    ELSE IF lines[n].bundle
    THEN <<[line_num |-> n, ref |-> lines[n]]>> \o BundleRefsFrom(lines, n + 1)
    ELSE BundleRefsFrom(lines, n + 1)

find_bundle_refs_in_pipeline(lines) == BundleRefsFrom(lines, 1)

TaskUpdate(ref, line_num, latest_version, latest_digest, newer) ==
    [task_name |-> ref.task,
     current_version |-> ref.version,
     current_digest |-> ref.digest,
     latest_version |-> latest_version,
     latest_digest |-> latest_digest,
     registry |-> ref.registry,
     location |-> line_num,
     newer |-> newer]    \* newer_version_available, newer_version_digest

needs_update(u) == u.current_digest # u.latest_digest

is_version_bump(u) == u.current_version # u.latest_version

\* The newer version analyze_pipeline finds for a bundle reference, or None.
NewerVersion(ledger, ref) ==
    LET latest_version_result == find_latest_version(ledger, ref.registry, ref.task)
    IN  IF /\ latest_version_result.found
           /\ is_newer_version(ref.version, latest_version_result.version)
        THEN latest_version_result
        ELSE None

\* Mutant: a version missing from the ledger falls back to the newer version
\* as an update instead of a notice.
AnalyzeRef_Fallback(ledger, upgrade, line_num, ref) ==
    LET task_key == [registry |-> ref.registry, task |-> ref.task, version |-> ref.version]
        version_result == get_latest_trusted(ledger, task_key)
        newer == NewerVersion(ledger, ref)
    IN  IF upgrade /\ newer.found
        THEN [updates |-> <<TaskUpdate(ref, line_num, newer.version, newer.digest, None)>>,
              available_upgrades |-> <<>>]
        ELSE IF version_result.found
        THEN LET update == TaskUpdate(ref, line_num, version_result.version,
                                      version_result.digest, newer)
             IN  IF needs_update(update)
                 THEN [updates |-> <<update>>, available_upgrades |-> <<>>]
                 ELSE IF newer.found
                 THEN [updates |-> <<>>, available_upgrades |-> <<update>>]
                 ELSE [updates |-> <<>>, available_upgrades |-> <<>>]
        ELSE IF newer.found
        THEN [updates |-> <<TaskUpdate(ref, line_num, newer.version, newer.digest, None)>>,
              available_upgrades |-> <<>>]
        ELSE [updates |-> <<>>, available_upgrades |-> <<>>]

\* Mutant: the digest refresh at the current version is tried before the
\* version upgrade.
AnalyzeRef_DigestFirst(ledger, upgrade, line_num, ref) ==
    LET task_key == [registry |-> ref.registry, task |-> ref.task, version |-> ref.version]
        version_result == get_latest_trusted(ledger, task_key)
        newer == NewerVersion(ledger, ref)
    IN  IF version_result.found
        THEN LET update == TaskUpdate(ref, line_num, version_result.version,
                                      version_result.digest, newer)
             IN  IF needs_update(update)
                 THEN [updates |-> <<update>>, available_upgrades |-> <<>>]
                 ELSE IF newer.found
                 THEN [updates |-> <<>>, available_upgrades |-> <<update>>]
                 ELSE [updates |-> <<>>, available_upgrades |-> <<>>]
        ELSE IF upgrade /\ newer.found
        THEN [updates |-> <<TaskUpdate(ref, line_num, newer.version, newer.digest, None)>>,
              available_upgrades |-> <<>>]
        ELSE IF newer.found
        THEN [updates |-> <<>>,
              available_upgrades |->
                  <<TaskUpdate(ref, line_num, ref.version, ref.digest, newer)>>]
        ELSE [updates |-> <<>>, available_upgrades |-> <<>>]

\* The body of analyze_pipeline's loop for one bundle reference: what it
\* appends to result.updates and to result.available_upgrades.
AnalyzeRef(ledger, upgrade, line_num, ref) ==
    LET task_key == [registry |-> ref.registry, task |-> ref.task, version |-> ref.version]
        version_result == get_latest_trusted(ledger, task_key)
        newer == NewerVersion(ledger, ref)
    IN  IF upgrade /\ newer.found
        THEN [updates |-> <<TaskUpdate(ref, line_num, newer.version, newer.digest, None)>>,
              available_upgrades |-> <<>>]
        ELSE IF version_result.found
        THEN LET update == TaskUpdate(ref, line_num, version_result.version,
                                      version_result.digest, newer)
             IN  IF needs_update(update)
                 THEN [updates |-> <<update>>, available_upgrades |-> <<>>]
                 ELSE IF newer.found
                 THEN [updates |-> <<>>, available_upgrades |-> <<update>>]
                 ELSE [updates |-> <<>>, available_upgrades |-> <<>>]
        ELSE IF newer.found
        THEN [updates |-> <<>>,
              available_upgrades |->
                  <<TaskUpdate(ref, line_num, ref.version, ref.digest, newer)>>]
        ELSE [updates |-> <<>>, available_upgrades |-> <<>>]

RECURSIVE AnalyzeRefs(_, _, _)
AnalyzeRefs(ledger, upgrade, bundle_refs) ==
    IF bundle_refs = <<>> THEN [updates |-> <<>>, available_upgrades |-> <<>>]
    ELSE LET first == AnalyzeRef(ledger, upgrade, Head(bundle_refs).line_num,
                                 Head(bundle_refs).ref)
             rest == AnalyzeRefs(ledger, upgrade, Tail(bundle_refs))
         IN  [updates |-> first.updates \o rest.updates,
              available_upgrades |-> first.available_upgrades \o rest.available_upgrades]

analyze_pipeline(lines, ledger, upgrade) ==
    AnalyzeRefs(ledger, upgrade, find_bundle_refs_in_pipeline(lines))

UpdaterKeyPool ==
    {Key(TASK, v) : v \in {V_0_9, V_0_10, V_0_x}} \cup {Key(OTHER_TASK, V_0_20)}

UpdaterListPool ==
    {<<Record(Sha("aaa"), FALSE)>>,
     <<Record(Sha("aaa"), TRUE), Record(Sha("bbb"), FALSE)>>,
     <<Record(BadRef, FALSE)>>}

LinePool ==
    {BundleLine(TASK, v, d) : v \in {V_0_9, V_0_10, V_0_x}, d \in {Sha("aaa"), Sha("bbb")}}
        \cup {OtherLine}

LedgerOff ==
    /\ call = NoCall
    /\ ret = None

InitUpdater ==
    /\ OtherOff
    /\ trusted_tasks \in Ledgers(UpdaterKeyPool, UpdaterListPool, MaxKeys)
    /\ LedgerOff
    /\ content \in UNION {[1..k -> LinePool] : k \in 0..MaxRefs}
    /\ upgrade_versions \in BOOLEAN
    /\ updates = <<>>
    /\ available_upgrades = <<>>
    /\ upc = "analyze"
    /\ LookupOff

\* main: result = analyze_pipeline(filepath, trusted_data, args.upgrade_versions)
AnalyzePipeline ==
    /\ upc = "analyze"
    /\ LET result == analyze_pipeline(content, trusted_tasks, upgrade_versions)
       IN  /\ updates' = result.updates
           /\ available_upgrades' = result.available_upgrades
    /\ upc' = "analyzed"
    /\ UNCHANGED <<ledgerVars, content, upgrade_versions, lookupVars, otherVars>>

NextUpdater == AnalyzePipeline

SpecUpdater == InitUpdater /\ [][NextUpdater]_vars

(***************************************************************************)
(* Properties of analyze_pipeline (checked under SpecUpdater).             *)
(***************************************************************************)
BundleLines == {i \in 1..Len(content) : content[i].bundle}

KeyOfLine(i) ==
    [registry |-> content[i].registry, task |-> content[i].task,
     version |-> content[i].version]

InLedger(task_key) == \E k \in 1..Len(trusted_tasks) : trusted_tasks[k].key = task_key

TrustedAt(i) == get_latest_trusted(trusted_tasks, KeyOfLine(i))

HighestOf(i) == find_latest_version(trusted_tasks, content[i].registry, content[i].task)

\* The ledger holds a version of line i's task that is newer than the line's.
HoldsNewer(i) ==
    \E k \in 1..Len(trusted_tasks) :
        /\ trusted_tasks[k].key.registry = content[i].registry
        /\ trusted_tasks[k].key.task = content[i].task
        /\ is_newer_version(content[i].version, trusted_tasks[k].key.version)

UpdatesAt(i) == {k \in 1..Len(updates) : updates[k].location = i}

UpgradesAt(i) == {k \in 1..Len(available_upgrades) : available_upgrades[k].location = i}

\* C6 as stated: with upgrades off, a bundle whose version has no entry in
\* the ledger is updated to the highest available version and its trusted
\* digest.
C6_AsStated ==
    upc = "analyzed" =>
        \A i \in BundleLines :
            (~upgrade_versions /\ ~InLedger(KeyOfLine(i)) /\ HighestOf(i).found) =>
                \E k \in UpdatesAt(i) :
                    /\ updates[k].latest_version = HighestOf(i).version
                    /\ updates[k].latest_digest = HighestOf(i).digest

\* C6 (amended): with upgrades off, a bundle whose version has no entry in
\* the ledger gets no update; if the highest version of the task has a trusted
\* digest and is newer, that version is only reported as an available upgrade,
\* the target staying at the current version and digest.
C6_NoUpdateOnlyNotice ==
    upc = "analyzed" =>
        \A i \in BundleLines :
            (~upgrade_versions /\ ~InLedger(KeyOfLine(i))) =>
                /\ UpdatesAt(i) = {}
                /\ IF HighestOf(i).found /\ HoldsNewer(i)
                   THEN \E k \in UpgradesAt(i) :
                        /\ UpgradesAt(i) = {k}
                        /\ available_upgrades[k].latest_version = content[i].version
                        /\ available_upgrades[k].latest_digest = content[i].digest
                        /\ available_upgrades[k].newer = HighestOf(i)
                   ELSE UpgradesAt(i) = {}

\* C6 witness: upgrades are off, 0.9 is not in the ledger, 0.10 is, and 0.10
\* was reported as available while nothing is updated.
C6_Witness ==
    /\ upc = "analyzed"
    /\ ~upgrade_versions
    /\ \E i \in BundleLines :
        /\ content[i].version = V_0_9
        /\ ~InLedger(KeyOfLine(i))
        /\ UpdatesAt(i) = {}
        /\ \E k \in UpgradesAt(i) : available_upgrades[k].newer.version = V_0_10

\* C7: a bundle whose version has a trusted digest in the ledger, and that is
\* not upgraded to a newer version, keeps its version and targets that digest;
\* it is listed as an update exactly when the digest differs from its own, and
\* never as a version bump.
C7_DigestMatch ==
    upc = "analyzed" =>
        \A i \in BundleLines :
            (/\ InLedger(KeyOfLine(i))
             /\ TrustedAt(i).found
             /\ ~(upgrade_versions /\ HighestOf(i).found /\ HoldsNewer(i))) =>
                /\ (UpdatesAt(i) # {}) <=> (TrustedAt(i).digest # content[i].digest)
                /\ \A k \in UpdatesAt(i) :
                    /\ updates[k].latest_version = content[i].version
                    /\ updates[k].latest_digest = TrustedAt(i).digest
                    /\ ~is_version_bump(updates[k])

V_latest == <<"l", "a", "t", "e", "s", "t">>

\* semver_pattern = ^[0-9]+\.[0-9]+(\.[0-9]+)?$
IsSemver(tag) ==
    LET pieces == Split(tag, ".")
    IN  /\ Len(pieces) \in {2, 3}
        /\ \A i \in 1..Len(pieces) : IntOk(pieces[i])

\* [t for t in all_tags if semver_pattern.match(t)]
RECURSIVE SemverOnly(_)
SemverOnly(all_tags) ==
    IF all_tags = <<>> THEN <<>>
    ELSE IF IsSemver(Head(all_tags)) THEN <<Head(all_tags)>> \o SemverOnly(Tail(all_tags))
    ELSE SemverOnly(Tail(all_tags))

\* sorted(..., key=lambda x: [int(p) for p in x.split('.')]): stable, smallest first.
RECURSIVE InsertByVersion(_, _)
InsertByVersion(x, s) ==
    IF s = <<>> THEN <<x>>
    ELSE IF ListGreater(VersionParts(Head(s)).parts, VersionParts(x).parts) THEN <<x>> \o s
    ELSE <<Head(s)>> \o InsertByVersion(x, Tail(s))

RECURSIVE SortedByVersion(_)
SortedByVersion(s) ==
    IF s = <<>> THEN <<>>
    ELSE InsertByVersion(s[Len(s)], SortedByVersion(SubSeq(s, 1, Len(s) - 1)))

\* What list_tags returns for the tags its page requests collected.
semver_tags(all_tags) == SortedByVersion(SemverOnly(all_tags))

\* digest_to_version.get(digest): the dict comprehension keeps the last tag
\* of a digest; '' results are left out; <<>> stands for None.
digest_to_version(res, digest) ==
    LET having == {i \in 1..Len(res) : res[i].digest # NoRef /\ res[i].digest = digest}
    IN  IF having = {} THEN <<>>
        ELSE res[CHOOSE i \in having : \A j \in having : j <= i].tag

\* version_to_digest: tag -> digest for the tags whose lookup gave a digest.
InVersionToDigest(res, tag) ==
    \E i \in 1..Len(res) : res[i].tag = tag /\ res[i].digest # NoRef

version_to_digest(res, tag) ==
    res[CHOOSE i \in 1..Len(res) : res[i].tag = tag /\ res[i].digest # NoRef].digest

\* Mutant: the first tag of the sorted list is taken for the highest.
highest_version_first(tag_list) == tag_list[1]

\* highest_version = tags[-1]
highest_version(tag_list) == tag_list[Len(tag_list)]

InTags(tag, tag_list) == \E i \in 1..Len(tag_list) : tag_list[i] = tag

\* Mutant: the EC recommendation is looked at before the untrusted flag.
ResolutionBranch_EcFirst(t, tag_list, digest_matched_version) ==
    IF t.recommended_version # <<>> /\ InTags(t.recommended_version, tag_list)
    THEN "ec_recommended"
    ELSE IF t.is_untrusted
    THEN IF digest_matched_version # <<>> THEN "untrusted_required"
         ELSE "untrusted_fallback"
    ELSE IF t.recommended_version # <<>> THEN "ec_fallback"
    ELSE IF digest_matched_version # <<>> THEN "digest_match"
    ELSE "fallback"

\* Mutant: a digest match is looked at before the EC recommendation.
ResolutionBranch_DigestFirst(t, tag_list, digest_matched_version) ==
    IF t.is_untrusted
    THEN IF digest_matched_version # <<>> THEN "untrusted_required"
         ELSE "untrusted_fallback"
    ELSE IF digest_matched_version # <<>> THEN "digest_match"
    ELSE IF t.recommended_version # <<>> /\ InTags(t.recommended_version, tag_list)
    THEN "ec_recommended"
    ELSE IF t.recommended_version # <<>> THEN "ec_fallback"
    ELSE "fallback"

\* The branch of the if/elif chain of process_task that is taken.
ResolutionBranch(t, tag_list, digest_matched_version) ==
    IF t.is_untrusted
    THEN IF digest_matched_version # <<>> THEN "untrusted_required"
         ELSE "untrusted_fallback"
    ELSE IF t.recommended_version # <<>> /\ InTags(t.recommended_version, tag_list)
    THEN "ec_recommended"
    ELSE IF t.recommended_version # <<>> THEN "ec_fallback"
    ELSE IF digest_matched_version # <<>> THEN "digest_match"
    ELSE "fallback"

\* task['latest_digest'] after the branch: replaced only when the chosen
\* version is in version_to_digest.
DigestFor(t, res, version) ==
    IF InVersionToDigest(res, version) THEN version_to_digest(res, version)
    ELSE t.latest_digest

\* Mutant: the resolved version is also stored as the task's current version.
WithBump_Rebase(t) ==
    [t EXCEPT !.is_version_bump = (t.latest_version # t.current_version),
              !.current_version = t.latest_version]

WithBump(t) == [t EXCEPT !.is_version_bump = (t.latest_version # t.current_version)]

\* process_task once every check_tag has returned (tags non-empty).
ResolveTask(t, tag_list, res) ==
    LET digest_matched_version == digest_to_version(res, t.latest_digest)
        highest == highest_version(tag_list)
        branch == ResolutionBranch(t, tag_list, digest_matched_version)
    IN  WithBump(
        CASE branch = "untrusted_required" ->
                [t EXCEPT !.latest_version = digest_matched_version,
                          !.version_source = "untrusted_required"]
          [] branch = "untrusted_fallback" ->
                [t EXCEPT !.latest_version = highest,
                          !.version_source = "highest_available",
                          !.warning = "Required digest not in semver tags",
                          !.latest_digest = DigestFor(t, res, highest)]
          [] branch = "ec_recommended" ->
                [t EXCEPT !.latest_version = t.recommended_version,
                          !.version_source = "ec_recommended",
                          !.latest_digest = DigestFor(t, res, t.recommended_version)]
          [] branch = "ec_fallback" ->
                [t EXCEPT !.latest_version = highest,
                          !.version_source = "highest_available",
                          !.warning = "EC recommended version not found",
                          !.latest_digest = DigestFor(t, res, highest)]
          [] branch = "digest_match" ->
                [t EXCEPT !.latest_version = digest_matched_version,
                          !.version_source = "digest_match"]
          [] branch = "fallback" ->
                [t EXCEPT !.latest_version = highest,
                          !.version_source = "highest_available",
                          !.warning = "Latest digest not in semver tags",
                          !.latest_digest = DigestFor(t, res, highest)])

\* Mutant: the early return without tags sets no error.
NoTagsFound_Silent(t) ==
    [t EXCEPT !.latest_version = t.current_version,
              !.is_version_bump = FALSE]

\* process_task when list_tags returned nothing.
NoTagsFound(t) ==
    [t EXCEPT !.latest_version = t.current_version,
              !.is_version_bump = FALSE,
              !.error = "No semver tags found"]

TagPool == {V_0_9, V_0_10, V_latest}

Registries ==
    UNION {{r \in [1..k -> [tag : TagPool, digest : {Sha("aaa"), Sha("bbb")}]] :
                \A i, j \in 1..k : i # j => r[i].tag # r[j].tag} : k \in 0..MaxTags}

\* A task as parse_ec_log hands it over; <<>> is recommended_version None.
TaskInputs ==
    {[NoTask EXCEPT !.task_name = "buildah",
                    !.current_version = V_0_1,
                    !.current_digest = Sha("ccc"),
                    !.latest_digest = d,
                    !.recommended_version = r,
                    !.is_untrusted = u] :
        d \in {Sha("aaa"), Sha("ddd")}, r \in {<<>>, V_0_9, V_0_2}, u \in BOOLEAN}

InitLookup ==
    /\ OtherOff
    /\ trusted_tasks = <<>>
    /\ LedgerOff
    /\ UpdaterOff
    /\ ec_task \in TaskInputs
    /\ task = ec_task
    /\ registry \in Registries
    /\ tags = <<>>
    /\ results = <<>>
    /\ lpc = "list_tags"

\* tags = await self.list_tags(task_name): the page requests succeed up to
\* some page and the tags collected until then are filtered and sorted; with
\* no semver tag process_task returns the error.
ListTags ==
    /\ lpc = "list_tags"
    /\ \E n \in 0..Len(registry) :
        LET all_tags == [i \in 1..n |-> registry[i].tag]
            found == semver_tags(all_tags)
        IN  /\ tags' = found
            /\ IF found = <<>>
               THEN /\ task' = NoTagsFound(task)
                    /\ results' = <<>>
                    /\ lpc' = "done"
               ELSE /\ task' = task
                    /\ results' = [i \in 1..Len(found) |->
                                      [tag |-> found[i], digest |-> NoRef, done |-> FALSE]]
                    /\ lpc' = "check_tags"
    /\ UNCHANGED <<ledgerVars, updaterVars, ec_task, registry, otherVars>>

RegistryDigest(tag) ==
    registry[CHOOSE i \in 1..Len(registry) : registry[i].tag = tag].digest

\* One check_tag of the gather: get_manifest_digest returns the digest of the
\* tag, or '' when the request fails.
CheckTag(i) ==
    /\ lpc = "check_tags"
    /\ ~results[i].done
    /\ \E digest \in {RegistryDigest(results[i].tag), NoRef} :
        results' = [results EXCEPT ![i] = [tag |-> results[i].tag, digest |-> digest,
                                           done |-> TRUE]]
    /\ UNCHANGED <<ledgerVars, updaterVars, ec_task, task, registry, tags, lpc, otherVars>>

\* The gather is complete: the version is resolved and process_task returns.
Resolve ==
    /\ lpc = "check_tags"
    /\ \A i \in 1..Len(results) : results[i].done
    /\ task' = ResolveTask(task, tags, results)
    /\ lpc' = "done"
    /\ UNCHANGED <<ledgerVars, updaterVars, ec_task, registry, tags, results, otherVars>>

NextLookup ==
    \/ ListTags
    \/ \E i \in 1..Len(results) : CheckTag(i)
    \/ Resolve

SpecLookup == InitLookup /\ [][NextLookup]_vars

(***************************************************************************)
(* Both resolvers side by side: a run is one analyze_pipeline or one       *)
(* process_task.                                                           *)
(***************************************************************************)
InitResolvers == InitUpdater \/ InitLookup

NextResolvers == NextUpdater \/ NextLookup

SpecResolvers == InitResolvers /\ [][NextResolvers]_vars

(***************************************************************************)
(* Properties of process_task (checked under SpecLookup).                  *)
(***************************************************************************)
Sources == {"untrusted_required", "ec_recommended", "digest_match", "highest_available"}

\* The tags whose manifest lookup returned the digest EC named for the task.
MatchingTags ==
    {results[i].tag : i \in {j \in 1..Len(results) :
        results[j].digest # NoRef /\ results[j].digest = ec_task.latest_digest}}

\* v is a tag that no tag exceeds numerically.
IsHighestTag(v) ==
    /\ InTags(v, tags)
    /\ \A i \in 1..Len(tags) :
        ~TupleGT(VersionParts(tags[i]).parts, VersionParts(v).parts)

\* C1: for a task that is untrusted and has an EC-recommended version, the
\* untrusted branch decides: the source is never ec_recommended; with tags it
\* is untrusted_required at the version of the required digest, or the
\* untrusted branch's own fallback to the highest version.
C1_UntrustedWins ==
    (lpc = "done" /\ ec_task.is_untrusted /\ ec_task.recommended_version # <<>>) =>
        /\ task.version_source # "ec_recommended"
        /\ tags # <<>> =>
            IF MatchingTags # {}
            THEN /\ task.version_source = "untrusted_required"
                 /\ task.latest_version \in MatchingTags
            ELSE /\ task.version_source = "highest_available"
                 /\ task.warning = "Required digest not in semver tags"

\* C1 witness: the task is untrusted, EC recommends a version that is among
\* the tags, and the result is the required digest's version, another one.
C1_Witness ==
    /\ lpc = "done"
    /\ ec_task.is_untrusted
    /\ InTags(ec_task.recommended_version, tags)
    /\ task.version_source = "untrusted_required"
    /\ task.latest_version # ec_task.recommended_version

C2_AsStated ==
    /\ upc = "analyzed" =>
        \A i \in BundleLines :
            UpdatesAt(i) # {} \/ UpgradesAt(i) # {} \/ TrustedAt(i).found
    /\ lpc = "done" =>
        /\ task.error = ""
        /\ task.version_source \in Sources
        /\ InTags(task.latest_version, tags)

\* C2 (amended): process_task gives every task whose repository lists a
\* semver tag a target version among the tags and a source, with a warning
\* exactly when the source is highest_available; without a semver tag it
\* returns an error and keeps the current version. analyze_pipeline computes
\* no target for a bundle reference (no update, no available upgrade, no
\* trusted digest confirming the current one) exactly when its version has no
\* trusted digest in the ledger and the ledger's highest version of the task is
\* not a newer one with a trusted digest; every update it lists targets a
\* sha256 digest.
C2_ResultOrError ==
    /\ upc = "analyzed" =>
        /\ \A i \in BundleLines :
            (UpdatesAt(i) = {} /\ UpgradesAt(i) = {} /\ ~TrustedAt(i).found)
                <=> (/\ ~TrustedAt(i).found
                     /\ ~(HighestOf(i).found /\ HoldsNewer(i)))
        /\ \A k \in 1..Len(updates) : updates[k].latest_digest.prefix = "sha256:"
    /\ lpc = "done" =>
        IF tags = <<>>
        THEN /\ task.error # ""
             /\ task.version_source = ""
             /\ task.latest_version = ec_task.current_version
        ELSE /\ task.error = ""
             /\ task.version_source \in Sources
             /\ InTags(task.latest_version, tags)
             /\ (task.version_source = "highest_available") <=> (task.warning # "")

\* C2 witness: a fallback happened: no tag has the latest digest and the
\* task got the highest tag with a warning.
C2_Witness ==
    /\ lpc = "done"
    /\ tags # <<>>
    /\ MatchingTags = {}
    /\ ~ec_task.is_untrusted
    /\ ec_task.recommended_version = <<>>
    /\ task.version_source = "highest_available"
    /\ task.warning # ""

(***************************************************************************)
(* contrib/repo_metrics/weekly_pr_report.py: JiraClient._fetch_json.       *)
(* Each call is a chain of frames: a frame that is rate limited calls      *)
(* _fetch_json again from inside its 'async with self.semaphore' block, so *)
(* a chain whose innermost frame has _retry_count = n and has acquired the *)
(* semaphore holds n + 1 permits, and gives them all back when the         *)
(* innermost frame returns and the chain unwinds.                          *)
(***************************************************************************)
JIRA_MAX_CONCURRENT_REQUESTS == 3

MAX_RETRIES == 3

MaxCalls == 2       \* calls of _fetch_json gathered at one time

Calls == 1..MaxCalls

\* response.status of the request; 0 stands for a request that raised.
Statuses == {0, 200, 401, 404, 429, 500}

\* What a frame returns for a status it does not retry.
JiraResult(status) == IF status = 200 THEN "json" ELSE "None"

InitJira ==
    /\ trusted_tasks = <<>>
    /\ LedgerOff
    /\ UpdaterOff
    /\ LookupOff
    /\ HttpOff
    /\ GatherOff
    /\ MainOff
    /\ CommitsOff
    /\ AuthOff
    /\ EcLogOff
    /\ GraphqlOff
    /\ SaasOff
    /\ jira_semaphore = JIRA_MAX_CONCURRENT_REQUESTS
    /\ request_count = 0
    /\ retry_count = [c \in Calls |-> 0]
    /\ jira_ret = [c \in Calls |-> "pending"]
    /\ jpc = [c \in Calls |-> "call"]

\* _fetch_json(url) is called: its first frame reaches 'async with'.
FetchJson(c) ==
    /\ jpc[c] = "call"
    /\ jpc' = [jpc EXCEPT ![c] = "acquire"]
    /\ UNCHANGED <<notJiraVars, jira_semaphore,
                   request_count, retry_count, jira_ret>>

\* async with self.semaphore: the frame waits until a permit is free.
JiraAcquire(c) ==
    /\ jpc[c] = "acquire"
    /\ jira_semaphore > 0
    /\ jira_semaphore' = jira_semaphore - 1
    /\ jpc' = [jpc EXCEPT ![c] = "delay"]
    /\ UNCHANGED <<notJiraVars, request_count,
                   retry_count, jira_ret>>

\* After the request delay: the request is counted and sent, and answered
\* with status.  Every answer but a 429 below the retry cap returns, and the
\* whole chain of frames unwinds, each frame releasing its permit.
JiraRequest(c, status) ==
    /\ jpc[c] = "delay"
    /\ request_count' = request_count + 1
    /\ IF status = 429 /\ retry_count[c] < MAX_RETRIES
         THEN /\ jpc' = [jpc EXCEPT ![c] = "rate_limited"]
              /\ UNCHANGED <<jira_semaphore, jira_ret>>
         ELSE /\ jpc' = [jpc EXCEPT ![c] = "returned"]
              /\ jira_ret' = [jira_ret EXCEPT ![c] = JiraResult(status)]
              /\ jira_semaphore' = jira_semaphore + retry_count[c] + 1
    /\ UNCHANGED <<notJiraVars, retry_count>>

\* After the 30 seconds: return await self._fetch_json(url, _retry_count + 1),
\* called with the frame's permit still held.
JiraRetry(c) ==
    /\ jpc[c] = "rate_limited"
    /\ retry_count' = [retry_count EXCEPT ![c] = @ + 1]
    /\ jpc' = [jpc EXCEPT ![c] = "acquire"]
    /\ UNCHANGED <<notJiraVars, jira_semaphore,
                   request_count, jira_ret>>

\* A step of a call that is in progress.
JiraStep(c) ==
    \/ JiraAcquire(c)
    \/ \E status \in Statuses : JiraRequest(c, status)
    \/ JiraRetry(c)

NextJira ==
    \/ \E c \in Calls : FetchJson(c)
    \/ \E c \in Calls : JiraAcquire(c)
    \/ \E c \in Calls, status \in Statuses : JiraRequest(c, status)
    \/ \E c \in Calls : JiraRetry(c)

SpecJira == InitJira /\ [][NextJira]_vars

JiraInProgress(c) == jpc[c] \in {"acquire", "delay", "rate_limited"}

\* C11: a call of _fetch_json that keeps being answered with 429 is retried
\* at most MAX_RETRIES times and then returns no data; every call returns:
\* while a call is in progress some call in progress can take its next step,
\* and a call that was rate limited more than MAX_RETRIES times has returned
\* None.
C11_FetchJsonReturns ==
    /\ \A c \in Calls : retry_count[c] <= MAX_RETRIES
    /\ (\E c \in Calls : JiraInProgress(c))
         => \E d \in Calls : JiraInProgress(d) /\ ENABLED JiraStep(d)

(***************************************************************************)
(* konflux_task_version_lookup.py at the HTTP level: the calls of          *)
(* list_tags and get_manifest_digest that run at one time on one           *)
(* KonfluxTaskLookup (process_all_tasks gathers the tasks, process_task    *)
(* gathers the check_tag calls of one task), each starting with            *)
(* get_bearer_token.  Two tasks of the EC log may name the same task, and  *)
(* so the same repository: parse_ec_log keys the tasks by current bundle.  *)
(*                                                                         *)
(* The semaphore is created with MAX_CONCURRENT_REQUESTS = 20 permits; the *)
(* model runs it with Permits permits and more calls than permits, as a    *)
(* run with more than 20 tasks or tags has.                                *)
(***************************************************************************)
Permits == 1        \* permits of KonfluxTaskLookup.semaphore

MaxLookups == 2     \* registry calls running at one time

MaxPages == 2       \* pages of a tag list

Lookups == 1..MaxLookups

REPO_BUILDAH == "konflux-ci/tekton-catalog/task-buildah"

REPO_GIT_CLONE == "konflux-ci/tekton-catalog/task-git-clone"

Repos == {REPO_BUILDAH, REPO_GIT_CLONE}

\* The tokens the registry hands out; each answer carries one of them.
Tokens == {"token-1", "token-2"}

\* self.base_auth: none or 'Bearer <token>'.  A base64 user:pass differs from
\* none only in the Authorization header of the token request.
BaseAuths == {"none", "bearer"}

\* self.base_auth.replace('Bearer ', '')
BearerValue == "base-token"

LookupPool == [method : {"list_tags", "get_manifest_digest"}, repo : Repos]

HttpStatuses == {200, 401, 429}

InCache_Never(repo) == FALSE

InCache(repo) == repo \in DOMAIN token_cache

\* self.token_cache[repo] = token
CacheWrite(repo, token) ==
    [r \in DOMAIN token_cache \cup {repo} |->
        IF r = repo THEN token ELSE token_cache[r]]

InitHttp ==
    /\ trusted_tasks = <<>>
    /\ LedgerOff
    /\ UpdaterOff
    /\ LookupOff
    /\ JiraOff
    /\ GatherOff
    /\ MainOff
    /\ CommitsOff
    /\ AuthOff
    /\ EcLogOff
    /\ GraphqlOff
    /\ SaasOff
    /\ semaphore = Permits
    /\ base_auth \in BaseAuths
    /\ token_cache = <<>>
    /\ lookups \in [Lookups -> LookupPool]
    /\ lookups[1].repo = REPO_BUILDAH      \* the repositories are alike
    /\ hpc = [c \in Lookups |-> "call"]
    /\ hret = [c \in Lookups |-> "pending"]
    /\ cache_hit = [c \in Lookups |-> FALSE]
    /\ sent = [c \in Lookups |-> 0]
    /\ answered_ok = [c \in Lookups |-> 0]
    /\ rate_limited = [c \in Lookups |-> FALSE]
    /\ token_requests = [r \in Repos |-> 0]
    /\ written = [r \in Repos |-> {}]

\* token = await self.get_bearer_token(repo), up to its first await: a cached
\* entry is returned, a 'Bearer ' base_auth is cached and returned, and
\* otherwise the token request is sent (outside the semaphore).
GetBearerToken(c) ==
    LET repo == lookups[c].repo IN
    /\ hpc[c] = "call"
    /\ IF InCache(repo)
         THEN /\ hpc' = [hpc EXCEPT ![c] = "acquire"]
              /\ cache_hit' = [cache_hit EXCEPT ![c] = TRUE]
              /\ UNCHANGED <<token_cache, token_requests, written>>
         ELSE IF base_auth = "bearer"
         THEN /\ hpc' = [hpc EXCEPT ![c] = "acquire"]
              /\ token_cache' = CacheWrite(repo, BearerValue)
              /\ written' = [written EXCEPT ![repo] = @ \cup {BearerValue}]
              /\ UNCHANGED <<cache_hit, token_requests>>
         ELSE /\ hpc' = [hpc EXCEPT ![c] = "token"]
              /\ token_requests' = [token_requests EXCEPT ![repo] = @ + 1]
              /\ UNCHANGED <<token_cache, cache_hit, written>>
    /\ UNCHANGED <<notHttpVars, semaphore, base_auth, lookups, hret, sent,
                   answered_ok, rate_limited>>

\* The token request is answered: a 200 caches the token it carries, any
\* other answer leaves the cache alone and the call goes on without a token.
TokenResponse(c, status, token) ==
    LET repo == lookups[c].repo IN
    /\ hpc[c] = "token"
    /\ hpc' = [hpc EXCEPT ![c] = "acquire"]
    /\ IF status = 200
         THEN /\ token_cache' = CacheWrite(repo, token)
              /\ written' = [written EXCEPT ![repo] = @ \cup {token}]
         ELSE UNCHANGED <<token_cache, written>>
    /\ UNCHANGED <<notHttpVars, semaphore, base_auth, lookups, hret, cache_hit,
                   sent, answered_ok, rate_limited, token_requests>>

\* async with self.semaphore: the request is counted and sent.
HttpAcquire(c) ==
    /\ hpc[c] = "acquire"
    /\ semaphore > 0
    /\ semaphore' = semaphore - 1
    /\ sent' = [sent EXCEPT ![c] = @ + 1]
    /\ hpc' = [hpc EXCEPT ![c] = "request"]
    /\ UNCHANGED <<notHttpVars, base_auth, token_cache, lookups, hret,
                   cache_hit, answered_ok, rate_limited, token_requests, written>>

\* Where a call goes after an answer: list_tags follows the Link header of a
\* 200 to the next page, and every other answer ends the call.
AfterAnswer_Retry(method, status, more) ==
    IF status = 429 \/ (method = "list_tags" /\ status = 200 /\ more)
    THEN "acquire" ELSE "done"

AfterAnswer(method, status, more) ==
    IF method = "list_tags" /\ status = 200 /\ more THEN "acquire" ELSE "done"

\* What the call returns: list_tags the semver tags of the pages it got,
\* get_manifest_digest the digest header of a 200 and '' otherwise.
HttpResult(method, status) ==
    IF method = "list_tags" THEN "tags"
    ELSE IF status = 200 THEN "digest" ELSE "''"

\* The request is answered and the semaphore released.  more: the answer
\* carries a Link header to a next page.
HttpResponse(c, status, more) ==
    LET method == lookups[c].method
        next == AfterAnswer(method, status, more /\ answered_ok[c] + 1 < MaxPages)
    IN
    /\ hpc[c] = "request"
    /\ semaphore' = semaphore + 1
    /\ answered_ok' = [answered_ok EXCEPT ![c] = IF status = 200 THEN @ + 1 ELSE @]
    /\ rate_limited' = [rate_limited EXCEPT ![c] = @ \/ status = 429]
    /\ hpc' = [hpc EXCEPT ![c] = next]
    /\ hret' = [hret EXCEPT ![c] =
                  IF next = "done" THEN HttpResult(method, status) ELSE @]
    /\ UNCHANGED <<notHttpVars, base_auth, token_cache, lookups, cache_hit,
                   sent, token_requests, written>>

NextHttp ==
    \/ \E c \in Lookups : GetBearerToken(c)
    \/ \E c \in Lookups, status \in HttpStatuses, token \in Tokens :
          TokenResponse(c, status, token)
    \/ \E c \in Lookups : HttpAcquire(c)
    \/ \E c \in Lookups, status \in HttpStatuses, more \in BOOLEAN :
          HttpResponse(c, status, more)

SpecHttp == InitHttp /\ [][NextHttp]_vars

\* Requests to the registry that are in flight.
InFlight == Cardinality({c \in Lookups : hpc[c] \in {"token", "request"}})

\* C12: at every moment at most as many requests to the registry are in
\* flight (token, tag-list and manifest requests) as the semaphore has
\* permits.
C12_InFlightCapped == InFlight <= Permits

\* C13 as stated: for each repository at most one token request is issued,
\* and any two writes to its cache entry write the same value.
C13_AsStated ==
    \A r \in Repos : token_requests[r] <= 1 /\ Cardinality(written[r]) <= 1

\* The calls that went through get_bearer_token for r without finding it cached.
Misses(r) ==
    {c \in Lookups : lookups[c].repo = r /\ hpc[c] # "call" /\ ~cache_hit[c]}

C13_Requests ==
    \A r \in Repos :
        /\ token_requests[r] = IF base_auth = "bearer" THEN 0 ELSE Cardinality(Misses(r))
        /\ written[r] \subseteq (IF base_auth = "bearer" THEN {BearerValue} ELSE Tokens)
        /\ Cardinality(written[r]) <= Cardinality(Misses(r))
        /\ r \in DOMAIN token_cache <=> written[r] # {}
        /\ r \in DOMAIN token_cache => token_cache[r] \in written[r]

C13_Hit ==
    \A c \in Lookups :
        (hpc[c] = "call" /\ hpc'[c] # "call" /\ lookups[c].repo \in DOMAIN token_cache)
            => /\ token_requests' = token_requests
               /\ token_cache' = token_cache
               /\ written' = written

\* C13 (amended): get_bearer_token reuses an entry that is cached when it is
\* called, sending no request and writing nothing; every call that finds no
\* entry sends its own token request (none with a 'Bearer ' base_auth, which
\* is cached as it stands), so calls that miss at the same time send several
\* requests for one repository; only a 200 answer writes the entry, with the
\* token of that answer, which may differ from the token of another answer.
C13_CacheReuse == []C13_Requests /\ [][C13_Hit]_vars

\* C13 witness: two calls for one repository both missed the cache, and
\* their two answers wrote different tokens.
C13_Witness ==
    \E r \in Repos :
        /\ token_requests[r] = 2
        /\ Cardinality(written[r]) = 2
        /\ \A c \in Lookups : lookups[c].repo = r => hpc[c] = "done"

\* C14 as stated: a tag-list or manifest request that is answered with 429
\* is retried: the call that got its first 429 goes back to send the request
\* again.
C14_AsStated ==
    [][\A c \in Lookups :
          (~rate_limited[c] /\ rate_limited'[c]) => hpc'[c] = "acquire"]_vars

\* C14 (amended): a tag-list or manifest request answered with 429 is not
\* retried; the call ends with that answer, having sent one request more than
\* were answered with 200: list_tags returns the semver tags of the pages it
\* got before, get_manifest_digest returns ''.
C14_NoRetry ==
    \A c \in Lookups :
        rate_limited[c] =>
            /\ hpc[c] = "done"
            /\ sent[c] = answered_ok[c] + 1
            /\ hret[c] = IF lookups[c].method = "list_tags" THEN "tags" ELSE "''"

\* C14 witness: a list_tags call was rate limited on its second page and a
\* get_manifest_digest call on its only request.
C14_Witness ==
    /\ \E c \in Lookups :
          /\ lookups[c].method = "list_tags"
          /\ rate_limited[c] /\ answered_ok[c] = 1 /\ sent[c] = 2
    /\ \E c \in Lookups :
          /\ lookups[c].method = "get_manifest_digest"
          /\ rate_limited[c] /\ sent[c] = 1

(***************************************************************************)
(* konflux_task_version_lookup.py: process_all_tasks.  The process_task    *)
(* coroutines complete in any order; asyncio.gather hands their results    *)
(* back in the order of its arguments, and the list is then sorted in      *)
(* place by task name.  A task name is a sequence of characters, compared  *)
(* as Python compares strings.                                             *)
(***************************************************************************)
MaxTasks == 3       \* tasks given to process_all_tasks

\* The characters of the task names, in code point order.
Alphabet ==
    <<"-", "a", "b", "c", "d", "e", "g", "h", "i", "l", "n", "o", "t", "u">>

Ord(c) == CHOOSE i \in 1..Len(Alphabet) : Alphabet[i] = c

\* a < b for Python strings.
RECURSIVE StrLess(_, _)
StrLess(a, b) ==
    IF b = <<>> THEN FALSE
    ELSE IF a = <<>> THEN TRUE
    ELSE IF Head(a) # Head(b) THEN Ord(Head(a)) < Ord(Head(b))
    ELSE StrLess(Tail(a), Tail(b))

N_buildah == <<"b", "u", "i", "l", "d", "a", "h">>

N_buildah_oci_ta == N_buildah \o <<"-", "o", "c", "i", "-", "t", "a">>

N_git_clone == <<"g", "i", "t", "-", "c", "l", "o", "n", "e">>

N_init == <<"i", "n", "i", "t">>

TaskNames == {N_buildah, N_buildah_oci_ta, N_git_clone, N_init}

\* The tasks of the EC log: parse_ec_log keys them by current bundle, so two
\* tasks may have the same name but never the same bundle.
TaskLists ==
    UNION {{[i \in 1..n |-> [task_name |-> names[i], current_bundle |-> i]] :
              names \in [1..n -> TaskNames]} : n \in 0..MaxTasks}

\* results.sort(key=lambda x: x['task_name']): a stable sort.
RECURSIVE InsertByName(_, _)
InsertByName(x, sorted) ==
    IF sorted = <<>> THEN <<x>>
    ELSE IF StrLess(x.task_name, Head(sorted).task_name)
         THEN <<x>> \o sorted
         ELSE <<Head(sorted)>> \o InsertByName(x, Tail(sorted))

RECURSIVE SortByName(_)
SortByName(list) ==
    IF list = <<>> THEN <<>>
    ELSE InsertByName(list[Len(list)], SortByName(SubSeq(list, 1, Len(list) - 1)))

\* asyncio.gather(*aws): the results in the order of aws, whatever the order
\* of completion.
GatherResults_ByCompletion(aws, done) == [i \in 1..Len(done) |-> aws[done[i]]]

GatherResults(aws, done) == aws

InitGather ==
    /\ trusted_tasks = <<>>
    /\ LedgerOff
    /\ UpdaterOff
    /\ LookupOff
    /\ JiraOff
    /\ HttpOff
    /\ MainOff
    /\ CommitsOff
    /\ AuthOff
    /\ EcLogOff
    /\ GraphqlOff
    /\ SaasOff
    /\ g_tasks \in TaskLists
    /\ g_done = <<>>
    /\ g_results = <<>>
    /\ gpc = "gather"

\* One of the gathered process_task coroutines returns its task.
ProcessTaskDone(i) ==
    /\ gpc = "gather"
    /\ \A k \in 1..Len(g_done) : g_done[k] # i
    /\ g_done' = Append(g_done, i)
    /\ UNCHANGED <<notGatherVars, g_tasks, g_results, gpc>>

\* All coroutines have returned: gather returns, the list is sorted and
\* returned.
ProcessAllTasksReturn ==
    /\ gpc = "gather"
    /\ Len(g_done) = Len(g_tasks)
    /\ g_results' = SortByName(GatherResults(g_tasks, g_done))
    /\ gpc' = "returned"
    /\ UNCHANGED <<notGatherVars, g_tasks, g_done>>

NextGather ==
    \/ \E i \in 1..Len(g_tasks) : ProcessTaskDone(i)
    \/ ProcessAllTasksReturn

SpecGather == InitGather /\ [][NextGather]_vars

\* C15: process_all_tasks returns the task results sorted by task name for
\* every completion order: the returned list holds every task once, no task
\* comes before a task with a smaller name, and tasks of the same name keep
\* the order they were given in, so the list does not depend on the order of
\* completion.
C15_SortedByTaskName ==
    gpc = "returned" =>
        /\ Len(g_results) = Len(g_tasks)
        /\ \A i \in 1..Len(g_tasks) : \E k \in 1..Len(g_results) : g_results[k] = g_tasks[i]
        /\ \A k, l \in 1..Len(g_results) :
              k < l =>
                /\ ~StrLess(g_results[l].task_name, g_results[k].task_name)
                /\ g_results[k].task_name = g_results[l].task_name
                     => g_results[k].current_bundle < g_results[l].current_bundle

\* C15 witness: tasks given out of name order completed in an order that is
\* neither the given order nor the returned one.
C15_Witness ==
    /\ gpc = "returned"
    /\ Len(g_tasks) >= 2
    /\ g_results # g_tasks
    /\ g_done # [i \in 1..Len(g_tasks) |-> i]
    /\ [i \in 1..Len(g_done) |-> g_tasks[g_done[i]]] # g_results

(***************************************************************************)
(* update_trusted_task_bundles.py: main, fetch_trusted_tasks_data and      *)
(* update_pipeline_content.  The text of a file is a sequence of tokens:   *)
(* the characters of versions and digests, and one token for each piece    *)
(* the replacement can neither split nor match in part (the registry, the  *)
(* task name, 'sha256:', the text in front of a reference, the newline).   *)
(***************************************************************************)
MaxFiles == 2       \* pipeline files given to main

NL == "\n"

\* f"{registry}/{task_name}:{version}@{digest}"
RefText(reg, task_name, version, digest) ==
    <<reg, "/", task_name, ":">> \o version \o <<"@", digest.prefix>> \o digest.hex

current_ref(u) == RefText(u.registry, u.task_name, u.current_version, u.current_digest)

latest_ref(u) == RefText(u.registry, u.task_name, u.latest_version, u.latest_digest)

LineText(line) ==
    IF line.bundle
    THEN <<"      value: ">> \o RefText(line.registry, line.task, line.version, line.digest)
    ELSE <<"    - name: bundle">>

\* The text of a file with the given lines, each ended by a newline.
RECURSIVE FileText(_)
FileText(lines) ==
    IF lines = <<>> THEN <<>>
    ELSE LineText(Head(lines)) \o <<NL>> \o FileText(Tail(lines))

StartsWith(s, p) == Len(p) <= Len(s) /\ SubSeq(s, 1, Len(p)) = p

\* s.replace(old, new): every occurrence, found from left to right.
RECURSIVE Replace(_, _, _)
Replace(s, old, new) ==
    IF s = <<>> THEN <<>>
    ELSE IF StartsWith(s, old)
    THEN new \o Replace(SubSeq(s, Len(old) + 1, Len(s)), old, new)
    ELSE <<Head(s)>> \o Replace(Tail(s), old, new)

\* Mutant: the reference is found by registry, task and version alone, and
\* replaced up to the end of its line.
RECURSIVE ReplaceUpTo(_, _, _, _)
ReplaceUpTo(s, old, new, skipping) ==
    IF s = <<>> THEN <<>>
    ELSE IF skipping
    THEN IF Head(s) = NL THEN s ELSE ReplaceUpTo(Tail(s), old, new, TRUE)
    ELSE IF StartsWith(s, old)
    THEN new \o ReplaceUpTo(SubSeq(s, Len(old) + 1, Len(s)), old, new, TRUE)
    ELSE <<Head(s)>> \o ReplaceUpTo(Tail(s), old, new, FALSE)

RECURSIVE update_pipeline_content_by_version(_, _)
update_pipeline_content_by_version(text, update_list) ==
    IF update_list = <<>> THEN text
    ELSE LET u == Head(update_list)
             old == <<u.registry, "/", u.task_name, ":">> \o u.current_version \o <<"@">>
         IN  update_pipeline_content_by_version(
                 ReplaceUpTo(text, old, latest_ref(u), FALSE), Tail(update_list))

RECURSIVE update_pipeline_content(_, _)
update_pipeline_content(text, update_list) ==
    IF update_list = <<>> THEN text
    ELSE update_pipeline_content(
             Replace(text, current_ref(Head(update_list)), latest_ref(Head(update_list))),
             Tail(update_list))

\* Digests: D_aaab is D_aaa with one more character.
D_aaa == Sha(<<"a", "a", "a">>)

D_aaab == Sha(<<"a", "a", "a", "b">>)

D_bbb == Sha(<<"b", "b", "b">>)

MainKeyPool == {Key(TASK, V_0_9), Key(TASK, V_0_10)}

MainListPool == {<<Record(D_bbb, FALSE)>>}

\* The pipeline files: without a reference, with one stale reference, with a
\* stale and a current reference to the same task and version, with a second
\* reference that starts like the stale one, with the stale reference twice.
MainFilePool ==
    {<<OtherLine>>,
     <<OtherLine, BundleLine(TASK, V_0_9, D_aaa), OtherLine>>,
     <<BundleLine(TASK, V_0_9, D_aaa), BundleLine(TASK, V_0_9, D_bbb)>>,
     <<BundleLine(TASK, V_0_9, D_aaa), BundleLine(TASK, V_0_9, D_aaab)>>,
     <<BundleLine(TASK, V_0_9, D_aaa), BundleLine(TASK, V_0_9, D_aaa)>>}

\* How fetch_trusted_tasks_data ends: it returns, or raises RuntimeError
\* (skopeo failed or is missing, no manifest.json, no trusted_tekton_tasks
\* layer, layer file missing), or an exception of json.load or
\* yaml.safe_load leaves it.
FetchOutcomes ==
    {"ok", "skopeo_failed", "skopeo_missing", "no_manifest", "no_layer",
     "layer_missing", "bad_manifest_json", "bad_yaml"}

RaisesRuntimeError(outcome) ==
    outcome \in {"skopeo_failed", "skopeo_missing", "no_manifest", "no_layer",
                 "layer_missing"}

\* Where main goes after the fetch: on RuntimeError it prints the error and
\* exits with 1; any other exception ends the interpreter, with status 1.
AfterFetch_Continue(outcome) == "analyze"

AfterFetch(outcome) == IF outcome = "ok" THEN "analyze" ELSE "exited"

RECURSIVE TotalUpdates(_)
TotalUpdates(all_results) ==
    IF all_results = <<>> THEN 0
    ELSE Len(Head(all_results).updates) + TotalUpdates(Tail(all_results))

\* if not args.dry_run: write the file
ShouldWrite_UnlessDiff(args) == ~args.dry_run \/ args.diff

ShouldWrite(args) == ~args.dry_run

\* The exit status at the end of main.
ExitStatus_AnyUpdate(total_updates, args) == IF total_updates > 0 THEN 1 ELSE 0

ExitStatus(total_updates, args) == IF total_updates > 0 /\ args.dry_run THEN 1 ELSE 0

InitMain ==
    /\ trusted_tasks = <<>>
    /\ LedgerOff
    /\ UpdaterOff
    /\ LookupOff
    /\ JiraOff
    /\ HttpOff
    /\ GatherOff
    /\ CommitsOff
    /\ AuthOff
    /\ EcLogOff
    /\ GraphqlOff
    /\ SaasOff
    /\ m_args \in [dry_run : BOOLEAN, diff : BOOLEAN, upgrade_versions : BOOLEAN]
    /\ m_catalog \in Ledgers(MainKeyPool, MainListPool, MaxKeys)
    /\ m_files \in UNION {[1..n -> MainFilePool] : n \in 0..MaxFiles}
    /\ m_disk = [f \in 1..Len(m_files) |-> FileText(m_files[f])]
    /\ m_fetch = "pending"
    /\ m_results = <<>>
    /\ m_exit = <<>>
    /\ mpc = "start"

\* main up to the fetch: PyYAML must be there, some pipeline file must be
\* named or found, and every file must exist; otherwise sys.exit(1).
MainStart(has_yaml, files_exist) ==
    /\ mpc = "start"
    /\ IF has_yaml /\ m_files # <<>> /\ files_exist
         THEN /\ mpc' = "fetch"
              /\ UNCHANGED m_exit
         ELSE /\ mpc' = "exited"
              /\ m_exit' = <<1>>
    /\ UNCHANGED <<notMainVars, m_args, m_catalog, m_files, m_disk, m_fetch, m_results>>

\* trusted_data = fetch_trusted_tasks_data(args.data_source)
MainFetch(outcome) ==
    /\ mpc = "fetch"
    /\ m_fetch' = outcome
    /\ mpc' = AfterFetch(outcome)
    /\ m_exit' = IF AfterFetch(outcome) = "exited" THEN <<1>> ELSE m_exit
    /\ UNCHANGED <<notMainVars, m_args, m_catalog, m_files, m_disk, m_results>>

\* for filepath in pipeline_files: all_results[filepath] = analyze_pipeline(...)
MainAnalyze ==
    /\ mpc = "analyze"
    /\ m_results' =
          [f \in 1..Len(m_files) |->
              analyze_pipeline(m_files[f], m_catalog, m_args.upgrade_versions)]
    /\ mpc' = "output"
    /\ UNCHANGED <<notMainVars, m_args, m_catalog, m_files, m_disk, m_fetch, m_exit>>

\* The summary, then for every file with updates the diff or the write, then
\* sys.exit.
MainOutput ==
    /\ mpc = "output"
    /\ m_disk' =
          [f \in 1..Len(m_files) |->
              IF m_results[f].updates # <<>> /\ ShouldWrite(m_args)
              THEN update_pipeline_content(m_disk[f], m_results[f].updates)
              ELSE m_disk[f]]
    /\ m_exit' = <<ExitStatus(TotalUpdates(m_results), m_args)>>
    /\ mpc' = "exited"
    /\ UNCHANGED <<notMainVars, m_args, m_catalog, m_files, m_fetch, m_results>>

NextMain ==
    \/ \E has_yaml, files_exist \in BOOLEAN : MainStart(has_yaml, files_exist)
    \/ \E outcome \in FetchOutcomes : MainFetch(outcome)
    \/ MainAnalyze
    \/ MainOutput

SpecMain == InitMain /\ [][NextMain]_vars

\* The occurrences of old in s, as str.count counts them.
RECURSIVE Count(_, _)
Count(s, old) ==
    IF s = <<>> THEN 0
    ELSE IF StartsWith(s, old)
    THEN 1 + Count(SubSeq(s, Len(old) + 1, Len(s)), old)
    ELSE Count(Tail(s), old)

\* The lines of a text whose lines all end with a newline.
RECURSIVE SplitLinesAcc(_, _)
SplitLinesAcc(s, cur) ==
    IF s = <<>> THEN <<>>
    ELSE IF Head(s) = NL THEN <<cur>> \o SplitLinesAcc(Tail(s), <<>>)
    ELSE SplitLinesAcc(Tail(s), Append(cur, Head(s)))

SplitLines(s) == SplitLinesAcc(s, <<>>)

\* after is before with the reference on u's line replaced by u's target
\* and every other line as it was.
OnlyLineOf(u, before, after) ==
    /\ Len(after) = Len(before)
    /\ \A i \in 1..Len(before) :
          after[i] = IF i = u.location
                     THEN <<"      value: ">> \o latest_ref(u)
                     ELSE before[i]

\* C16: if the content holds exactly one occurrence of an update's current
\* reference, update_pipeline_content with that update replaces only that
\* occurrence by the target reference and leaves every other line as it
\* was; so does the file main writes when that update is the file's only one.
C16_OnlyThatOccurrence ==
    \A f \in 1..Len(m_results) :
        LET original == FileText(m_files[f])
            update_list == m_results[f].updates
        IN  /\ \A k \in 1..Len(update_list) :
                  Count(original, current_ref(update_list[k])) = 1 =>
                      OnlyLineOf(update_list[k], SplitLines(original),
                                 SplitLines(update_pipeline_content(original,
                                                                    <<update_list[k]>>)))
            /\ (/\ mpc = "exited"
                /\ ~m_args.dry_run
                /\ Len(update_list) = 1
                /\ Count(original, current_ref(update_list[1])) = 1)
                   => OnlyLineOf(update_list[1], SplitLines(original),
                                 SplitLines(m_disk[f]))

\* C16 witness: a file with a stale and a current reference to the same task
\* and version was rewritten for its one update.
C16_Witness ==
    \E f \in 1..Len(m_results) :
        /\ mpc = "exited"
        /\ ~m_args.dry_run
        /\ Len(m_files[f]) = 2
        /\ m_files[f][1].bundle /\ m_files[f][2].bundle
        /\ Len(m_results[f].updates) = 1
        /\ Count(FileText(m_files[f]), current_ref(m_results[f].updates[1])) = 1
        /\ m_disk[f] # FileText(m_files[f])

(***************************************************************************)
(* Purity of the two resolvers (checked under SpecResolvers).              *)
(***************************************************************************)
\* What parse_ec_log put into the task dict before process_task is called.
TaskInputFields(t) ==
    [task_name |-> t.task_name, current_version |-> t.current_version,
     current_digest |-> t.current_digest, latest_digest |-> t.latest_digest,
     recommended_version |-> t.recommended_version, is_untrusted |-> t.is_untrusted]

\* The fields of the task dict process_task never assigns.
TaskKeptFields(t) ==
    [task_name |-> t.task_name, current_version |-> t.current_version,
     current_digest |-> t.current_digest,
     recommended_version |-> t.recommended_version, is_untrusted |-> t.is_untrusted]

\* C17 as stated: resolving leaves the ledger and every other input
\* unchanged: no step of analyze_pipeline or process_task changes the ledger,
\* the pipeline content, the flag, or a field of the task that was given.
C17_AsStated ==
    [][/\ trusted_tasks' = trusted_tasks
       /\ content' = content
       /\ upgrade_versions' = upgrade_versions
       /\ TaskInputFields(task') = TaskInputFields(task)]_vars

\* No step changes the ledger, the content, the flag, the registry, or a
\* field of the task other than latest_digest and the result fields.
C17_Frame ==
    /\ trusted_tasks' = trusted_tasks
    /\ content' = content
    /\ upgrade_versions' = upgrade_versions
    /\ registry' = registry
    /\ ec_task' = ec_task
    /\ TaskKeptFields(task') = TaskKeptFields(task)

\* The result is determined by the inputs (and, for process_task, by the
\* answers of the registry): analyze_pipeline's result is the function of
\* content, ledger and flag; process_task's dict is the function of the task
\* as given, the tags listed and the digests answered.
C17_Determined ==
    /\ upc = "analyzed" =>
         /\ updates = analyze_pipeline(content, trusted_tasks, upgrade_versions).updates
         /\ available_upgrades =
              analyze_pipeline(content, trusted_tasks, upgrade_versions).available_upgrades
    /\ (lpc = "done" /\ tags # <<>>) => task = ResolveTask(ec_task, tags, results)
    /\ (lpc = "done" /\ tags = <<>>) => task = NoTagsFound(ec_task)
    /\ lpc # "done" => task = ec_task

\* C17 (amended): analyze_pipeline changes none of its inputs and its result
\* is determined by them; process_task leaves the ledger untouched, writes
\* its result into the task dict it was given, overwriting latest_digest in
\* the fallback and ec_recommended branches, keeps the other input fields,
\* and its result is determined by the task as given and the registry's
\* answers.
C17_PureExceptTaskDict == []C17_Determined /\ [][C17_Frame]_vars

\* A finished process_task that overwrote the latest_digest it was given, and
\* a finished analyze_pipeline that found an update.
C17_Witness ==
    \/ /\ lpc = "done"
       /\ task.latest_digest # ec_task.latest_digest
       /\ task.version_source = "highest_available"
    \/ /\ upc = "analyzed"
       /\ updates # <<>>

(***************************************************************************)
(* Properties of the updater's main (checked under SpecMain).              *)
(***************************************************************************)
\* The files as they were before the run.
DiskBefore == [f \in 1..Len(m_files) |-> FileText(m_files[f])]

\* Some pipeline file of the run has an update against the catalog.
UpdatesPending ==
    \E f \in 1..Len(m_files) :
        analyze_pipeline(m_files[f], m_catalog, m_args.upgrade_versions).updates # <<>>

\* C18: a run that ended exits with 1 when the catalog fetch or its parsing
\* failed, with 1 when --dry-run is set and some update is pending, and with
\* 0 in every other run that got to the end (nothing to change, or changes
\* written); a run stopped before the fetch (no PyYAML, no pipeline file)
\* exits with 1.
C18_ExitCodes ==
    mpc = "exited" =>
        m_exit = <<IF m_fetch = "pending" THEN 1
                   ELSE IF m_fetch # "ok" THEN 1
                   ELSE IF m_args.dry_run /\ UpdatesPending THEN 1
                   ELSE 0>>

\* A run without --dry-run that wrote its updates and exited with 0.
C18_Witness ==
    /\ mpc = "exited"
    /\ m_fetch = "ok"
    /\ ~m_args.dry_run
    /\ UpdatesPending
    /\ m_disk # DiskBefore
    /\ m_exit = <<0>>

\* C19: with --dry-run every pipeline file keeps the content it had before
\* the run, at every point of the run, whatever updates were found and with
\* or without --diff.
C19_DryRunWritesNothing == m_args.dry_run => m_disk = DiskBefore

\* A finished --dry-run --diff run that found updates (and exited with 1).
C19_Witness ==
    /\ mpc = "exited"
    /\ m_args.dry_run
    /\ m_args.diff
    /\ m_fetch = "ok"
    /\ UpdatesPending
    /\ m_exit = <<1>>

\* C20: once the fetch of the catalog failed (skopeo failed or is missing, no
\* manifest, no trusted_tekton_tasks layer, layer file missing, manifest or
\* YAML not parseable) the run has ended with exit status 1, no pipeline was
\* analyzed and no file was written.
C20_FetchFailureAborts ==
    m_fetch \notin {"pending", "ok"} =>
        /\ mpc = "exited"
        /\ m_exit = <<1>>
        /\ m_results = <<>>
        /\ m_disk = DiskBefore

\* A run without --dry-run, with an update waiting in a pipeline file, whose
\* catalog had no trusted_tekton_tasks layer.
C20_Witness ==
    /\ mpc = "exited"
    /\ m_fetch = "no_layer"
    /\ ~m_args.dry_run
    /\ UpdatesPending
    /\ m_exit = <<1>>

(***************************************************************************)
(* is_newer_version on malformed versions (checked under SpecLedger).      *)
(***************************************************************************)
\* A version whose every dot-separated component is a run of digits: it is
\* not empty, holds digits and dots only, neither starts nor ends with a dot
\* and has no two dots in a row.
WellFormedVersion(v) ==
    /\ v # <<>>
    /\ \A i \in 1..Len(v) : IsDigit(v[i]) \/ v[i] = "."
    /\ v[1] # "."
    /\ v[Len(v)] # "."
    /\ \A i \in 1..(Len(v) - 1) : ~(v[i] = "." /\ v[i + 1] = ".")

\* C21: is_newer_version fails closed: when either version has a component
\* that is not an integer, the call returns False (and returns: the
\* ValueError does not leave the method).
C21_FailsClosed ==
    (/\ call.fn = "is_newer_version"
     /\ (~WellFormedVersion(call.args[1]) \/ ~WellFormedVersion(call.args[2])))
        => ret = FALSE

\* is_newer_version('0.1', '0.x') returned False: the candidate is malformed
\* and would be newer if its bad component were skipped or read as a number
\* above 1; also the call with the malformed version as current.
C21_Witness ==
    /\ call.fn = "is_newer_version"
    /\ call.args \in {<<V_0_x, V_0_1>>, <<V_0_, V_0_9>>}
    /\ ret = FALSE

(***************************************************************************)
(* ai_assisted_commits.py: analyze_commits over the commits git lists.     *)
(***************************************************************************)
MaxCommits == 2     \* commits git log answers with

HashPool == {"h1", "h2", "h3"}

\* A line of a commit message: a trailer with its value, or other text.
Line(trailer, value) == [trailer |-> trailer, value |-> value]

\* Commit message bodies: no marker, markers of each pattern, and trailers
\* that look alike but match no pattern.
BodyPool ==
    {<<Line("text", "fix the build")>>,
     <<Line("text", "add a test"), Line("Assisted-by", "Claude")>>,
     <<Line("co-authored-by", "Claude <noreply@anthropic.com>")>>,
     <<Line("Co-authored-by", "Bob"), Line("Signed-off-by", "Bob")>>}

\* git log: every commit once; a commit has 0 (root), 1 or 2 (merge) parents.
GitLogs ==
    UNION {{l \in [1..n -> [hash : HashPool, parents : 0..2, body : BodyPool]] :
                \A i, j \in 1..n : i # j => l[i].hash # l[j].hash} : n \in 0..MaxCommits}

\* git rev-list --parents -n 1 <hash>, split into words: the hash, then its
\* parents.
RevListParents(commit) == <<commit.hash>> \o [p \in 1..commit.parents |-> "parent"]

\* Mutant: a commit with any parent counts as a merge.
is_merge_commit_any_parent(parents) == Len(parents) > 1

is_merge_commit(parents) == Len(parents) > 2

\* AI_PATTERNS, matched per line and without regard to case: Assisted-by:,
\* Co-authored-by: Claude, Commit-Message-Assisted-by: at the start of a line
\* and the robot followed by Generated anywhere.
is_ai_assisted(commit_body) ==
    \E i \in 1..Len(commit_body) :
        \/ commit_body[i].trailer \in {"Assisted-by", "assisted-by"}
        \/ /\ commit_body[i].trailer \in {"Co-authored-by", "co-authored-by"}
           /\ commit_body[i].value = "Claude <noreply@anthropic.com>"
        \/ commit_body[i].trailer = "Commit-Message-Assisted-by"
        \/ commit_body[i].trailer = "robot Generated"

NoCounters ==
    [merge_commits |-> 0, non_merge_commits |-> 0, ai_assisted_hashes |-> {},
     ai_assisted_merge |-> 0, ai_assisted_non_merge |-> 0, ai_commit_details |-> <<>>]

\* Mutant: an AI-assisted merge commit is not counted as such.
CountCommit_MergeUncounted(c, commit) ==
    LET is_merge == is_merge_commit(RevListParents(commit))
        is_ai == is_ai_assisted(commit.body)
    IN  [merge_commits |-> c.merge_commits + (IF is_merge THEN 1 ELSE 0),
         non_merge_commits |-> c.non_merge_commits + (IF is_merge THEN 0 ELSE 1),
         ai_assisted_merge |-> c.ai_assisted_merge,
         ai_assisted_non_merge |->
             c.ai_assisted_non_merge + (IF ~is_merge /\ is_ai THEN 1 ELSE 0),
         ai_assisted_hashes |->
             IF is_ai THEN c.ai_assisted_hashes \cup {commit.hash} ELSE c.ai_assisted_hashes,
         ai_commit_details |->
             IF is_ai THEN Append(c.ai_commit_details, <<commit.hash, commit.hash>>)
             ELSE c.ai_commit_details]

\* The body of the loop of analyze_commits for one commit.
CountCommit(c, commit) ==
    LET is_merge == is_merge_commit(RevListParents(commit))
        is_ai == is_ai_assisted(commit.body)
    IN  [merge_commits |-> c.merge_commits + (IF is_merge THEN 1 ELSE 0),
         non_merge_commits |-> c.non_merge_commits + (IF is_merge THEN 0 ELSE 1),
         ai_assisted_merge |-> c.ai_assisted_merge + (IF is_merge /\ is_ai THEN 1 ELSE 0),
         ai_assisted_non_merge |->
             c.ai_assisted_non_merge + (IF ~is_merge /\ is_ai THEN 1 ELSE 0),
         ai_assisted_hashes |->
             IF is_ai THEN c.ai_assisted_hashes \cup {commit.hash} ELSE c.ai_assisted_hashes,
         ai_commit_details |->
             IF is_ai THEN Append(c.ai_commit_details, <<commit.hash, commit.hash>>)
             ELSE c.ai_commit_details]

InitCommits ==
    /\ trusted_tasks = <<>>
    /\ LedgerOff
    /\ UpdaterOff
    /\ LookupOff
    /\ JiraOff
    /\ HttpOff
    /\ GatherOff
    /\ MainOff
    /\ AuthOff
    /\ EcLogOff
    /\ GraphqlOff
    /\ SaasOff
    /\ git_log \in GitLogs
    /\ commit_i = 0
    /\ counters = NoCounters
    /\ stats = <<>>
    /\ cpc = "loop"

\* for commit_hash in commit_hashes: one pass of the loop.
AnalyzeCommit ==
    /\ cpc = "loop"
    /\ commit_i < Len(git_log)
    /\ counters' = CountCommit(counters, git_log[commit_i + 1])
    /\ commit_i' = commit_i + 1
    /\ UNCHANGED <<notCommitsVars, git_log, stats, cpc>>

\* return CommitStats(...)
AnalyzeCommitsReturn ==
    /\ cpc = "loop"
    /\ commit_i = Len(git_log)
    /\ stats' = [total_commits |-> Len(git_log),
                 merge_commits |-> counters.merge_commits,
                 non_merge_commits |-> counters.non_merge_commits,
                 ai_assisted_commits |-> Cardinality(counters.ai_assisted_hashes),
                 ai_assisted_non_merge |-> counters.ai_assisted_non_merge,
                 ai_assisted_merge |-> counters.ai_assisted_merge,
                 ai_commits |-> [k \in 1..Len(counters.ai_commit_details) |->
                                    counters.ai_commit_details[k][2]]]
    /\ cpc' = "returned"
    /\ UNCHANGED <<notCommitsVars, git_log, commit_i, counters>>

NextCommits ==
    \/ AnalyzeCommit
    \/ AnalyzeCommitsReturn

SpecCommits == InitCommits /\ [][NextCommits]_vars

\* C22: the statistics analyze_commits returns satisfy ai_assisted_merge +
\* ai_assisted_non_merge = ai_assisted_commits = len(ai_commits), and
\* ai_assisted_commits <= total_commits.
C22_AiCountsConsistent ==
    cpc = "returned" =>
        /\ stats.ai_assisted_merge + stats.ai_assisted_non_merge = stats.ai_assisted_commits
        /\ stats.ai_assisted_commits = Len(stats.ai_commits)
        /\ stats.ai_assisted_commits <= stats.total_commits

\* Statistics over an AI-assisted merge commit and a commit without marker.
C22_Witness ==
    /\ cpc = "returned"
    /\ stats.ai_assisted_merge = 1
    /\ stats.ai_assisted_commits < stats.total_commits

\* C23: every commit is counted as a merge or as a non-merge, never both:
\* merge_commits + non_merge_commits = total_commits, and the merges are
\* the commits with two or more parents.
C23_MergeOrNot ==
    cpc = "returned" =>
        /\ stats.merge_commits + stats.non_merge_commits = stats.total_commits
        /\ stats.merge_commits =
              Cardinality({i \in 1..Len(git_log) : git_log[i].parents >= 2})

\* Statistics over a merge, and a commit with one parent.
C23_Witness ==
    /\ cpc = "returned"
    /\ stats.merge_commits = 1
    /\ stats.non_merge_commits = 1
    /\ \E i \in 1..Len(git_log) : git_log[i].parents = 1

(***************************************************************************)
(* konflux_task_version_lookup.py: get_registry_auth and the sources it    *)
(* asks in turn.                                                           *)
(***************************************************************************)
\* An auth file: whether it exists, whether it is JSON, whether its auths
\* hold an entry for quay.io, and that entry's auth ("" when the key is
\* missing or empty, as with a credential helper).  A file under an unset
\* XDG_RUNTIME_DIR is a file that does not exist.
AuthFile(exists, valid, entry, auth) ==
    [exists |-> exists, valid |-> valid, entry |-> entry, auth |-> auth]

AuthFileStates(cred) ==
    {AuthFile(FALSE, FALSE, FALSE, ""), AuthFile(TRUE, FALSE, FALSE, ""),
     AuthFile(TRUE, TRUE, FALSE, ""), AuthFile(TRUE, TRUE, TRUE, ""),
     AuthFile(TRUE, TRUE, TRUE, cred)}

NoAuth == [auth |-> "", source |-> "none"]

\* The with/try block over one auth file: <<returns, auth>>; it returns
\* from the function exactly when the file has an entry for quay.io.
ReadAuthFile(file) ==
    IF file.exists /\ file.valid /\ file.entry
    THEN [returns |-> TRUE, auth |-> file.auth]
    ELSE [returns |-> FALSE, auth |-> ""]

get_auth_from_containers_config(files) ==
    IF ReadAuthFile(files.xdg).returns THEN ReadAuthFile(files.xdg).auth
    ELSE IF ReadAuthFile(files.config).returns THEN ReadAuthFile(files.config).auth
    ELSE ""

get_auth_from_docker_config(files) ==
    IF ReadAuthFile(files.docker).returns THEN ReadAuthFile(files.docker).auth
    ELSE ""

InitAuth ==
    /\ trusted_tasks = <<>>
    /\ LedgerOff
    /\ UpdaterOff
    /\ LookupOff
    /\ JiraOff
    /\ HttpOff
    /\ GatherOff
    /\ MainOff
    /\ CommitsOff
    /\ EcLogOff
    /\ GraphqlOff
    /\ SaasOff
    /\ auth_env \in {"", "env-token"}
    /\ auth_files \in [xdg : AuthFileStates("cred-xdg"),
                       config : AuthFileStates("cred-config"),
                       docker : AuthFileStates("cred-docker")]
    /\ auth_ret = <<>>
    /\ apc = "env"

\* 1. token = get_auth_token_from_env(); if token: return
AuthFromEnv ==
    /\ apc = "env"
    /\ IF auth_env # ""
         THEN /\ auth_ret' = [auth |-> auth_env, source |-> "env"]
              /\ apc' = "returned"
         ELSE /\ apc' = "containers"
              /\ UNCHANGED auth_ret
    /\ UNCHANGED <<notAuthVars, auth_env, auth_files>>

\* 2. auth, path = get_auth_from_containers_config(); if auth: return
AuthFromContainers ==
    /\ apc = "containers"
    /\ LET auth == get_auth_from_containers_config(auth_files)
       IN  IF auth # ""
           THEN /\ auth_ret' = [auth |-> auth, source |-> "containers"]
                /\ apc' = "returned"
           ELSE /\ apc' = "docker"
                /\ UNCHANGED auth_ret
    /\ UNCHANGED <<notAuthVars, auth_env, auth_files>>

\* 3. auth, path = get_auth_from_docker_config(); if auth: return; else
\* anonymous access.
AuthFromDocker ==
    /\ apc = "docker"
    /\ LET auth == get_auth_from_docker_config(auth_files)
       IN  auth_ret' = IF auth # "" THEN [auth |-> auth, source |-> "docker"]
                       ELSE [auth |-> "", source |-> "anonymous"]
    /\ apc' = "returned"
    /\ UNCHANGED <<notAuthVars, auth_env, auth_files>>

NextAuth ==
    \/ AuthFromEnv
    \/ AuthFromContainers
    \/ AuthFromDocker

SpecAuth == InitAuth /\ [][NextAuth]_vars

\* The file holds a credential for quay.io.
HoldsCredential(file) == file.exists /\ file.valid /\ file.entry /\ file.auth # ""

\* C24: the credential comes from the first source that has one, in the
\* order environment variable, containers auth file (either of its two
\* places), Docker config, anonymous: a lower source is used only when no
\* higher source holds a credential.
C24_FirstAvailableSource ==
    apc = "returned" =>
        auth_ret.source =
            IF auth_env # "" THEN "env"
            ELSE IF HoldsCredential(auth_files.xdg) \/ HoldsCredential(auth_files.config)
            THEN "containers"
            ELSE IF HoldsCredential(auth_files.docker) THEN "docker"
            ELSE "anonymous"

(***************************************************************************)
(* A second analysis of the files main wrote (checked under SpecMain).     *)
(***************************************************************************)
IsHex(c) == IsDigit(c) \/ c \in {"a", "b", "c", "d", "e", "f"}

\* The first position from n on that holds the token, or 0.
RECURSIVE IndexFrom(_, _, _)
IndexFrom(s, token, n) ==
    IF n > Len(s) THEN 0
    ELSE IF s[n] = token THEN n
    ELSE IndexFrom(s, token, n + 1)

\* find_bundle_refs_in_pipeline and BUNDLE_PATTERN on one line of text: a
\* 'value:' line whose value is registry/task:version@sha256:hex, with a
\* version that is not empty and a digest of one or more hex characters.
ParseLine(l) ==
    LET at == IndexFrom(l, "@", 6)
    IN  IF /\ Len(l) >= 9
           /\ l[1] = "      value: "
           /\ l[3] = "/"
           /\ l[5] = ":"
           /\ at > 6
           /\ at + 2 <= Len(l)
           /\ l[at + 1] = "sha256:"
           /\ \A i \in (at + 2)..Len(l) : IsHex(l[i])
        THEN [bundle |-> TRUE, registry |-> l[2], task |-> l[4],
              version |-> SubSeq(l, 6, at - 1),
              digest |-> Sha(SubSeq(l, at + 2, Len(l)))]
        ELSE OtherLine

\* content.splitlines(), each line read as above.
ParseFile(text) == [i \in 1..Len(SplitLines(text)) |-> ParseLine(SplitLines(text)[i])]

\* Reading back the text of a pipeline file gives its lines.
ParseFileReadsBack == \A f \in 1..Len(m_files) : ParseFile(FileText(m_files[f])) = m_files[f]

\* C25: after a run that wrote its updates, a second analysis of every
\* rewritten file against the same ledger and flags finds no update.
C25_FixpointInOneRun ==
    (mpc = "exited" /\ m_fetch = "ok" /\ ~m_args.dry_run) =>
        \A f \in 1..Len(m_files) :
            analyze_pipeline(ParseFile(m_disk[f]), m_catalog,
                             m_args.upgrade_versions).updates = <<>>

(***************************************************************************)
(* konflux_task_version_lookup.py: parse_ec_log over the components of the *)
(* EC report.  A message is the record of the groups its regular           *)
(* expression extracts.                                                    *)
(***************************************************************************)
MaxComponents == 2  \* components in the EC report

T_buildah == "buildah"
T_init == "init"

\* violations: tasks.unsupported names a task and a version,
\* trusted_task.trusted names a PipelineTask and the required digest.
Unsupported(task_name, version) ==
    [code |-> "tasks.unsupported", task_name |-> task_name, version |-> version,
     digest |-> NoRef]

Untrusted(task_name, required_digest) ==
    [code |-> "trusted_task.trusted", task_name |-> task_name, version |-> <<>>,
     digest |-> required_digest]

\* warnings: trusted_task.current names the current bundle
\* task-{name}:{version}@{digest} and the latest bundle ref.
Outdated(task_name, version, digest, latest) ==
    [code |-> "trusted_task.current",
     current_bundle |-> [task_name |-> task_name, version |-> version, digest |-> digest],
     latest_digest |-> latest]

ViolationLists ==
    {<<>>,
     <<Unsupported(T_buildah, V_0_2)>>,
     <<Untrusted(T_buildah, Sha("aaa"))>>,
     <<Unsupported(T_buildah, V_0_2), Untrusted(T_buildah, Sha("aaa"))>>,
     <<Untrusted(T_buildah, Sha("aaa")), Untrusted(T_init, Sha("bbb"))>>}

WarningLists ==
    {<<>>,
     <<Outdated(T_buildah, V_0_1, Sha("ccc"), Sha("ddd"))>>,
     <<Outdated(T_buildah, V_0_1, Sha("ccc"), Sha("ddd")),
       Outdated(T_buildah, V_0_9, Sha("ccc"), Sha("ddd"))>>}

EcReports ==
    UNION {[1..n -> [violations : ViolationLists, warnings : WarningLists]] :
              n \in 0..MaxComponents}

\* d[key] = value on a dict kept as a sequence of entries in insertion order.
DictSet(d, key, value) ==
    IF \E i \in 1..Len(d) : d[i].key = key
    THEN [i \in 1..Len(d) |-> IF d[i].key = key THEN [key |-> key, value |-> value] ELSE d[i]]
    ELSE Append(d, [key |-> key, value |-> value])

HasKey(d, key) == \E i \in 1..Len(d) : d[i].key = key

\* d.get(key): <<>> is None.
DictGet(d, key) ==
    IF HasKey(d, key) THEN (CHOOSE e \in {d[i] : i \in 1..Len(d)} : e.key = key).value
    ELSE <<>>

\* for violation in component.get('violations', []): the two dicts after the loop.
RECURSIVE ScanViolations(_, _, _)
ScanViolations(violations, untrusted, unsupported) ==
    IF violations = <<>> THEN [untrusted |-> untrusted, unsupported |-> unsupported]
    ELSE LET v == Head(violations)
         IN  IF v.code = "tasks.unsupported"
             THEN ScanViolations(Tail(violations), untrusted,
                                 DictSet(unsupported, v.task_name, v.version))
             ELSE IF v.code = "trusted_task.trusted"
             THEN ScanViolations(Tail(violations),
                                 DictSet(untrusted, v.task_name, v.digest), unsupported)
             ELSE ScanViolations(Tail(violations), untrusted, unsupported)

\* The task_data dict built from a trusted_task.current warning.
TaskFromWarning(w, unsupported) ==
    [NoTask EXCEPT !.task_name = w.current_bundle.task_name,
                   !.current_version = w.current_bundle.version,
                   !.current_digest = w.current_bundle.digest,
                   !.latest_digest = w.latest_digest,
                   !.recommended_version = DictGet(unsupported, w.current_bundle.task_name)]

\* for warning in component.get('warnings', []): tasks_by_bundle after the loop.
RECURSIVE ScanWarnings(_, _, _)
ScanWarnings(warnings, by_bundle, unsupported) ==
    IF warnings = <<>> THEN by_bundle
    ELSE LET w == Head(warnings)
         IN  IF w.code = "trusted_task.current" /\ ~HasKey(by_bundle, w.current_bundle)
             THEN ScanWarnings(Tail(warnings),
                               DictSet(by_bundle, w.current_bundle,
                                       TaskFromWarning(w, unsupported)),
                               unsupported)
             ELSE ScanWarnings(Tail(warnings), by_bundle, unsupported)

V_unknown == <<"u", "n", "k", "n", "o", "w", "n">>

\* The task_data dict added for an untrusted task.
TaskFromUntrusted(task_name, required_digest) ==
    [NoTask EXCEPT !.task_name = task_name,
                   !.current_version = V_unknown,
                   !.current_digest = [prefix |-> "", hex |-> "unknown"],
                   !.latest_digest = required_digest,
                   !.is_untrusted = TRUE]

\* for task_name, required_digest in untrusted_tasks.items(): add the task
\* unless a task of that name is tracked already.
RECURSIVE AddUntrusted(_, _)
AddUntrusted(untrusted, by_bundle) ==
    IF untrusted = <<>> THEN by_bundle
    ELSE LET task_name == Head(untrusted).key
             already_tracked ==
                 \E i \in 1..Len(by_bundle) : by_bundle[i].value.task_name = task_name
         IN  IF ~already_tracked
             THEN AddUntrusted(Tail(untrusted),
                               DictSet(by_bundle,
                                       [task_name |-> task_name, version |-> <<>>,
                                        digest |-> [prefix |-> "untrusted:", hex |-> ""]],
                                       TaskFromUntrusted(task_name, Head(untrusted).value)))
             ELSE AddUntrusted(Tail(untrusted), by_bundle)

InitEcLog ==
    /\ trusted_tasks = <<>>
    /\ LedgerOff
    /\ UpdaterOff
    /\ LookupOff
    /\ JiraOff
    /\ HttpOff
    /\ GatherOff
    /\ MainOff
    /\ CommitsOff
    /\ AuthOff
    /\ GraphqlOff
    /\ SaasOff
    /\ ec_data \in EcReports
    /\ component_i = 0
    /\ tasks_by_bundle = <<>>
    /\ untrusted_tasks = <<>>
    /\ unsupported_recommendations = <<>>
    /\ ec_tasks = <<>>
    /\ epc = "components"

\* for component in ec_data.get('components', []): its violations, then its
\* warnings.
ProcessComponent ==
    /\ epc = "components"
    /\ component_i < Len(ec_data)
    /\ LET component == ec_data[component_i + 1]
           scanned == ScanViolations(component.violations, untrusted_tasks,
                                     unsupported_recommendations)
       IN  /\ untrusted_tasks' = scanned.untrusted
           /\ unsupported_recommendations' = scanned.unsupported
           /\ tasks_by_bundle' =
                 ScanWarnings(component.warnings, tasks_by_bundle, scanned.unsupported)
    /\ component_i' = component_i + 1
    /\ UNCHANGED <<notEcLogVars, ec_data, ec_tasks, epc>>

\* The untrusted tasks are added, and tasks = list(tasks_by_bundle.values())
\* is returned.
ParseEcLogReturn ==
    /\ epc = "components"
    /\ component_i = Len(ec_data)
    /\ tasks_by_bundle' = AddUntrusted(untrusted_tasks, tasks_by_bundle)
    /\ ec_tasks' = [i \in 1..Len(tasks_by_bundle') |-> tasks_by_bundle'[i].value]
    /\ epc' = "returned"
    /\ UNCHANGED <<notEcLogVars, ec_data, component_i, untrusted_tasks,
                   unsupported_recommendations>>

NextEcLog ==
    \/ ProcessComponent
    \/ ParseEcLogReturn

SpecEcLog == InitEcLog /\ [][NextEcLog]_vars

(***************************************************************************)
(* Properties of parse_ec_log (checked under SpecEcLog).                   *)
(***************************************************************************)
\* The violations of the report with the given code.
ViolationsOf(code) ==
    {v \in UNION {{ec_data[c].violations[k] : k \in 1..Len(ec_data[c].violations)} :
                     c \in 1..Len(ec_data)} : v.code = code}

ReportedOutdated(task_name) ==
    \E c \in 1..Len(ec_data) : \E k \in 1..Len(ec_data[c].warnings) :
        ec_data[c].warnings[k].current_bundle.task_name = task_name

\* C26: every task named by a trusted_task.trusted violation is in the
\* result, flagged is_untrusted, with the violation's required digest as
\* latest_digest, also when a trusted_task.current warning names the task.
C26_UntrustedFlagged ==
    epc = "returned" =>
        \A v \in ViolationsOf("trusted_task.trusted") :
            \E i \in 1..Len(ec_tasks) :
                /\ ec_tasks[i].task_name = v.task_name
                /\ ec_tasks[i].is_untrusted
                /\ ec_tasks[i].latest_digest = v.digest

\* What does hold: a task named by such a violation is in the result, and it
\* is flagged with the required digest when no warning names the task.
UntrustedTracked ==
    epc = "returned" =>
        \A v \in ViolationsOf("trusted_task.trusted") :
            /\ \E i \in 1..Len(ec_tasks) : ec_tasks[i].task_name = v.task_name
            /\ ~ReportedOutdated(v.task_name) =>
                  \E i \in 1..Len(ec_tasks) :
                      /\ ec_tasks[i].task_name = v.task_name
                      /\ ec_tasks[i].is_untrusted
                      /\ ec_tasks[i].latest_digest = v.digest

\* C28: the recommended_version of a task found by a warning is the version
\* the tasks.unsupported violation names for its task name, wherever in the
\* report the violation stands.
C28_RecommendationAnyOrder ==
    epc = "returned" =>
        \A i \in 1..Len(ec_tasks) :
            \A v \in ViolationsOf("tasks.unsupported") :
                (~ec_tasks[i].is_untrusted /\ v.task_name = ec_tasks[i].task_name)
                    => ec_tasks[i].recommended_version = v.version

(***************************************************************************)
(* Target version and target digest of process_task (checked under         *)
(* SpecLookup).                                                            *)
(***************************************************************************)
\* C27: in every process_task result without error, latest_digest is the
\* registry's digest of the tag latest_version, on every branch and also
\* when manifest lookups failed.
C27_DigestOfLatestVersion ==
    (lpc = "done" /\ task.error = "") =>
        /\ \E i \in 1..Len(registry) : registry[i].tag = task.latest_version
        /\ task.latest_digest = RegistryDigest(task.latest_version)

(***************************************************************************)
(* weekly_pr_report.py: the page loop of fetch_release_prs_graphql, with   *)
(* aiohttp and with the requests fallback.  The search has finitely many   *)
(* pages; every request is answered in one of the ways of GhFailures, with *)
(* a page of results, or with a body that holds errors or no data.         *)
(***************************************************************************)
MaxPrPages == 4     \* pages of the GitHub search

max_retries == 3

\* Failed responses: a status other than 200 with a JSON body, a status
\* other than 200 with another body, and status 200 with a body that is no
\* JSON.
GhFailures == {"non200_json", "non200_other", "ok_unparsable"}

\* if retry_count > max_retries: break
GiveUp(count) == count > max_retries

\* Mutant: a success leaves the failure count as it is.
AfterSuccess_Keep(count) == count

\* retry_count = 0  # Reset on success
AfterSuccess(count) == 0

InitGraphql ==
    /\ trusted_tasks = <<>>
    /\ LedgerOff
    /\ UpdaterOff
    /\ LookupOff
    /\ JiraOff
    /\ HttpOff
    /\ GatherOff
    /\ MainOff
    /\ CommitsOff
    /\ AuthOff
    /\ EcLogOff
    /\ SaasOff
    /\ has_aiohttp \in BOOLEAN
    /\ cursor = 0
    /\ prs = <<>>
    /\ gh_retry_count = 0
    /\ consecutive_failed = 0
    /\ prs_ret = <<>>
    /\ qpc = "loop"

\* A failed response.  With aiohttp: count it, give up beyond max_retries,
\* else sleep and post again.  With requests: response.json() raises on a
\* body that is no JSON, and a JSON body without 'data' ends the loop.
GhFailedResponse(failure) ==
    /\ qpc = "loop"
    /\ consecutive_failed' = consecutive_failed + 1
    /\ IF has_aiohttp
         THEN /\ gh_retry_count' = gh_retry_count + 1
              /\ IF GiveUp(gh_retry_count + 1)
                   THEN qpc' = "returned" /\ prs_ret' = prs
                   ELSE UNCHANGED <<qpc, prs_ret>>
         ELSE /\ UNCHANGED gh_retry_count
              /\ IF failure = "non200_json"
                   THEN qpc' = "returned" /\ prs_ret' = prs
                   ELSE qpc' = "raised" /\ UNCHANGED prs_ret
    /\ UNCHANGED <<notGraphqlVars, has_aiohttp, cursor, prs>>

\* Status 200 and a JSON body with 'errors', or without 'data': break.
GhNoData ==
    /\ qpc = "loop"
    /\ consecutive_failed' = 0
    /\ gh_retry_count' = IF has_aiohttp THEN AfterSuccess(gh_retry_count) ELSE gh_retry_count
    /\ qpc' = "returned"
    /\ prs_ret' = prs
    /\ UNCHANGED <<notGraphqlVars, has_aiohttp, cursor, prs>>

\* Status 200 and a page of the search: its HyperShift-related PRs are
\* appended; the loop ends on the last page and moves the cursor otherwise.
GhPage(related, has_next_page) ==
    /\ qpc = "loop"
    /\ cursor < MaxPrPages
    /\ has_next_page => cursor + 1 < MaxPrPages
    /\ consecutive_failed' = 0
    /\ gh_retry_count' = IF has_aiohttp THEN AfterSuccess(gh_retry_count) ELSE gh_retry_count
    /\ prs' = IF related THEN Append(prs, cursor + 1) ELSE prs
    /\ IF has_next_page
         THEN /\ cursor' = cursor + 1
              /\ UNCHANGED <<qpc, prs_ret>>
         ELSE /\ qpc' = "returned"
              /\ prs_ret' = prs'
              /\ UNCHANGED cursor
    /\ UNCHANGED <<notGraphqlVars, has_aiohttp>>

NextGraphql ==
    \/ \E failure \in GhFailures : GhFailedResponse(failure)
    \/ GhNoData
    \/ \E related, has_next_page \in BOOLEAN : GhPage(related, has_next_page)

SpecGraphql == InitGraphql /\ [][NextGraphql]_vars

\* Every request is answered: the loop goes on while it can.
SpecGraphqlFair == SpecGraphql /\ WF_vars(NextGraphql)

\* C29 as stated, for either HTTP library: the fetch never ends by an
\* exception, and when a failed response ends it, that response was the
\* fourth failure in a row.
C29_AsStated ==
    /\ qpc # "raised"
    /\ (qpc = "returned" /\ consecutive_failed > 0) => consecutive_failed = max_retries + 1

\* With aiohttp: the loop goes on after at most max_retries failures in a
\* row, a fourth failure in a row ends it, the count starts again after a
\* success, and what is returned are the PRs collected.
GhRetriesBounded ==
    has_aiohttp =>
        /\ qpc # "raised"
        /\ gh_retry_count = consecutive_failed
        /\ qpc = "loop" => consecutive_failed <= max_retries
        /\ (qpc = "returned" /\ consecutive_failed > 0) =>
              consecutive_failed = max_retries + 1
        /\ qpc = "returned" => prs_ret = prs

\* With requests there is no retry: the first failed response ends the
\* fetch, by an exception when its body is no JSON.
GhNoRetryWithRequests ==
    ~has_aiohttp =>
        /\ consecutive_failed <= 1
        /\ qpc = "loop" => consecutive_failed = 0
        /\ qpc = "returned" => prs_ret = prs

\* C29 (amended): with aiohttp the fetch stops at the fourth failed response
\* in a row and returns the PRs collected so far, a success resets the
\* count; with requests the first failed response ends it; either way the
\* loop ends when the search has finitely many pages.
C29_StopsAndTerminates ==
    /\ [](GhRetriesBounded /\ GhNoRetryWithRequests)
    /\ <>(qpc # "loop")

\* The fetch gave up at the fourth failure in a row, after failures that a
\* success had interrupted, and returned the PRs of the pages before.
C29_Witness ==
    /\ has_aiohttp
    /\ qpc = "returned"
    /\ consecutive_failed = max_retries + 1
    /\ cursor = 2
    /\ prs_ret = <<1, 2>>

(***************************************************************************)
(* generate-saas-template.py: the objects are read, Deployments are        *)
(* patched, the template is written.  A kind is the sequence of its        *)
(* characters.                                                             *)
(***************************************************************************)
MaxObjects == 2     \* YAML documents on stdin

K_Deployment == <<"D", "e", "p", "l", "o", "y", "m", "e", "n", "t">>
K_Deploy == <<"D", "e", "p", "l", "o", "y">>
K_DeploymentConfig == K_Deployment \o <<"C", "o", "n", "f", "i", "g">>
K_Service == <<"S", "e", "r", "v", "i", "c", "e">>

OPERATOR_IMAGE == "quay.io/app-sre/hypershift-operator:latest"
OTHER_IMAGE == "quay.io/app-sre/hypershift-operator:v1"
PARAMETER_IMAGE == "${REGISTRY_IMG}:${IMAGE_TAG}"

\* An object: its kind, whether it has spec.template.spec.containers, and the
\* images of those containers.
Object(kind, has_containers, images) ==
    [kind |-> kind, has_containers |-> has_containers, images |-> images]

ObjectPool ==
    {Object(K_Deployment, TRUE, <<OPERATOR_IMAGE, OTHER_IMAGE>>),
     Object(K_Deployment, TRUE, <<OTHER_IMAGE>>),
     Object(K_DeploymentConfig, TRUE, <<OPERATOR_IMAGE>>),
     Object(K_Deploy, TRUE, <<OPERATOR_IMAGE>>),
     Object(K_Service, FALSE, <<>>),
     Object(<<>>, FALSE, <<>>)}

\* Python's a in b on strings: a is a substring of b.
IsSubstring(a, b) ==
    \E i \in 0..(Len(b) - Len(a)) : SubSeq(b, i + 1, i + Len(a)) = a

\* if obj and obj["kind"] in "Deployment"
IsPatched(obj) == IsSubstring(obj.kind, K_Deployment)

\* for container in ...: the operator image becomes the parameter reference.
PatchImages(obj) ==
    [obj EXCEPT !.images =
        [c \in 1..Len(obj.images) |->
            IF obj.images[c] = OPERATOR_IMAGE THEN PARAMETER_IMAGE ELSE obj.images[c]]]

InitSaas ==
    /\ trusted_tasks = <<>>
    /\ LedgerOff
    /\ UpdaterOff
    /\ LookupOff
    /\ JiraOff
    /\ HttpOff
    /\ GatherOff
    /\ MainOff
    /\ CommitsOff
    /\ AuthOff
    /\ EcLogOff
    /\ GraphqlOff
    /\ manifests \in UNION {[1..n -> ObjectPool] : n \in 0..MaxObjects}
    /\ template_objects = manifests
    /\ obj_i = 0
    /\ stdout = <<>>
    /\ spc = "patch"

\* for obj in template["objects"]: one object; obj["spec"] of an object
\* without it raises KeyError.
PatchObject ==
    /\ spc = "patch"
    /\ obj_i < Len(template_objects)
    /\ LET obj == template_objects[obj_i + 1]
       IN  IF IsPatched(obj)
           THEN IF obj.has_containers
                THEN /\ template_objects' =
                           [template_objects EXCEPT ![obj_i + 1] = PatchImages(obj)]
                     /\ obj_i' = obj_i + 1
                     /\ UNCHANGED spc
                ELSE /\ spc' = "raised"
                     /\ UNCHANGED <<template_objects, obj_i>>
           ELSE /\ obj_i' = obj_i + 1
                /\ UNCHANGED <<template_objects, spc>>
    /\ UNCHANGED <<notSaasVars, manifests, stdout>>

\* yaml.dump(template, sys.stdout, default_flow_style=False)
WriteTemplate ==
    /\ spc = "patch"
    /\ obj_i = Len(template_objects)
    /\ stdout' = template_objects
    /\ spc' = "written"
    /\ UNCHANGED <<notSaasVars, manifests, template_objects, obj_i>>

NextSaas ==
    \/ PatchObject
    \/ WriteTemplate

SpecSaas == InitSaas /\ [][NextSaas]_vars

\* C30: the template holds the objects in input order; an object is changed
\* only when its kind is exactly Deployment, and then only the images that
\* are exactly the operator image, which become ${REGISTRY_IMG}:${IMAGE_TAG}.
C30_OnlyDeploymentsPatched ==
    spc = "written" =>
        /\ Len(stdout) = Len(manifests)
        /\ \A i \in 1..Len(manifests) :
              stdout[i] = IF manifests[i].kind = K_Deployment
                          THEN PatchImages(manifests[i])
                          ELSE manifests[i]

====
